---- MODULE Spec2Model ----
(***************************************************************************)
(* Notification delivery pipeline of the Domoticz Google plugin            *)
(* (src/plugin.py): the notification queue, the GoogleNotify worker thread *)
(* (BasePlugin.handleMessage), the producers (onNotification, onCommand    *)
(* 'Sendnotification'), the per-device StoreState / RestoreState protocol  *)
(* and the shutdown procedure (BasePlugin.onStop).                         *)
(*                                                                         *)
(* Time is counted in ticks of half a second and only inside one playback  *)
(* session (the poll loop compares time.time() with endTime); a blocking   *)
(* wait is a program-counter value the worker sits at, and the action that *)
(* leaves it says whether the wait ran to its timeout or ended early.      *)
(* Values the worker reads from a device (Ready, cast status, media        *)
(* status) are written by listener threads, so each read draws its value   *)
(* from the set of values the device can report.                           *)
(***************************************************************************)
EXTENDS Integers, Sequences, FiniteSets, TLC

\* ---------------------------------------------------------------- bounds
MaxRequests == 2
MaxDuration == 2

\* ------------------------------------------------------ program constants
\* Time is counted in ticks of 1/8000 s, the unit in which the estimate of
\* line 600 (fileSize * 8 / 64000 seconds) is a whole number for every file
\* size: wait(0.5), 15 s, 10 s and 5 s in ticks.
TicksPerSecond == 8000
PollTicks == 4000
MinDeadlineTicks == 120000
EstimateSlackTicks == 80000
DurationSlackTicks == 40000
RestoreMaxWaits == 10
BitsPerByte == 8
BitRate == 64000

NoneVal == -1

UUIDs == {"u1", "u2"}
\* the audio devices on the network and their friendly names
DeviceName == [u \in {"u1"} |-> "Kitchen"]
Mode1Values == {"", "Attic", "Kitchen"}
FileSizes == {0, 42000}
\* what the file holds after tts.save has written the first part of a
\* text that is synthesised in several parts
PartSizes == {21000}
Volumes == {40}
Durations == {NoneVal} \cup {MaxDuration}

\* the sentinel pushed by onStop (None) and the value of Message before
\* the first dequeue
Sentinel == [id |-> 0, Target |-> "None"]
NoMessage == [id |-> NoneVal, Target |-> ""]

EmptyState == [has |-> FALSE, Volume |-> 0, Muted |-> FALSE]
NoCancel == [id |-> NoneVal, point |-> "none"]
\* RestoreState has not run: no result, no quit_app, no set_volume, no
\* set_volume_muted
NoRestore == [result |-> "none", quitSent |-> FALSE, Volume |-> NoneVal,
              muteSent |-> FALSE, Muted |-> FALSE]
NoFile == NoneVal
NoPath == <<"ENOENT">>

WaitPoints == {"get", "await_active", "settle", "poll_body", "flush_wait",
               "restore_wait"}
SessionPoints == {"await_active", "settle", "poll_cond", "poll_body", "flush",
                  "flush_wait"}

VARIABLES
    voiceEnabled,     \* module global voiceEnabled
    Mode1,            \* Parameters["Mode1"]
    messageQueue,     \* items of self.messageQueue, oldest first
    unfinished,       \* messageQueue.unfinished_tasks
    stop_event,       \* self.stop_event
    googleDevices,    \* self.googleDevices: its entries in insertion order
    discovery,        \* position of the discovery thread in discoveryCallback
    restoring,        \* the GoogleDevice object RestoreState is running on
    madeDir,          \* the directory Messages exists under HomeFolder
    State,            \* GoogleDevice.State of each uuid
    asset,            \* size of Messages/<uuid>.mp3, NoFile when absent
    wpc,              \* position of the GoogleNotify thread in handleMessage
    Message,          \* the item the worker holds
    uuids,            \* rest of list(self.googleDevices) in the for loop
    uuid,             \* loop variable of the for loop
    now,              \* time.time() since endTime was last computed
    endTime, sawPlaying, durationSet, playbackCompleted,
    waited,           \* RestoreState: waited
    spc,              \* position of the plugin thread in onStop
    stopError,        \* onStop reported a thread that did not stop
    lingering,        \* disconnect(timeout=5) left a cast's thread running
    nextId,           \* number of requests enqueued so far
    \* ------------------------------------------------ observation (history)
    deq,              \* ids in the order the worker dequeued them
    deqStop,          \* id -> stop_event was set when the item was dequeued
    done,             \* id -> number of task_done calls made for the item
    synthCount,       \* times the worker ran synthesis for Message
    storeCount,       \* times it called StoreState for Message
    playCount,        \* times it called play_media for Message
    restoreCount,     \* times it called RestoreState for Message
    outcome,          \* how the worker's last session or request ended
    sigInWait,        \* stop_event was set while the worker sat in this wait
    lastWait,         \* the wait the worker left last
    cancelled,        \* the session in flight when the signal was set
    seenPlay,         \* playing/paused was read at some tick of this session
    idleAfterPlay,    \* idle was read at a tick with seenPlay
    pendingAtStop,    \* unfinished_tasks when shutdown was issued
    captured,         \* what StoreState read from the status, this session
    restored,         \* what RestoreState did, this session
    \* ------------------------------------------------------- media server
    Connection,       \* the connection of the last onMessage call
    Data,             \* the Data argument of the last onMessage call
    sent,             \* what that call passed to Connection.Send, in order
    opened,           \* the file that call opened, NoPath when none
    traffic,          \* which requests the clients of this run send
    mpc,              \* position of the host's thread in onMessage
    filePath,         \* onMessage: filePath, as the file system resolves it
    messageFileSize,  \* onMessage: messageFileSize
    messageFile,      \* onMessage: messageFile is None, open or closed
    hadFailure,       \* an earlier onMessage call ended in its except clause
    \* ---------------------------------------------------------- room plan
    state,            \* RoomPlanManager.state
    plan_idx,         \* RoomPlanManager.plan_idx, NoIdx for None
    plan_device_set,  \* RoomPlanManager.plan_device_set
    pending_add,      \* RoomPlanManager.pending_add
    conn,             \* the DomoticzPlanHTTP connection
    triggered,        \* the plugin has the attribute _plan_triggered
    outstanding,      \* API requests sent and not yet answered
    requests,         \* the API requests sent so far, in order
    obj,              \* the response on_message received last
    allOK             \* every response so far was JSON with status OK

vars == <<voiceEnabled, Mode1, messageQueue, unfinished, stop_event,
          googleDevices, State, asset, wpc, Message, uuids, uuid, now,
          endTime, sawPlaying, durationSet, playbackCompleted, waited, spc,
          stopError, nextId, deq, deqStop, done, synthCount, storeCount,
          playCount, restoreCount, outcome, sigInWait, lastWait, cancelled,
          seenPlay, idleAfterPlay, pendingAtStop, captured, restored,
          Connection, Data, sent, opened, traffic, mpc, filePath,
          messageFileSize, messageFile, hadFailure, state, plan_idx,
          plan_device_set, pending_add, conn, triggered, outstanding,
          requests, obj, allOK, discovery, restoring, madeDir, lingering>>

queueVars == <<messageQueue, unfinished>>
deviceVars == <<googleDevices, State, asset>>
sessionVars == <<now, endTime, sawPlaying, durationSet, playbackCompleted,
                 seenPlay, idleAfterPlay>>
stopVars == <<stop_event, spc, stopError, lingering, pendingAtStop,
              cancelled>>
countVars == <<synthCount, storeCount, playCount, restoreCount>>
deqVars == <<deq, deqStop>>
waitVars == <<sigInWait, lastWait>>
restoreObs == <<captured, restored>>
callVars == <<Connection, Data, sent, opened, mpc, filePath,
              messageFileSize, messageFile, hadFailure>>
serverVars == <<callVars, traffic>>
planVars == <<state, plan_idx, plan_device_set, pending_add, conn, triggered,
              outstanding, requests, obj, allOK>>
otherVars == <<serverVars, planVars>>
\* what only discovery, RestoreState and the mkdir of line 569 write
quietVars == <<otherVars, discovery, restoring, madeDir>>
workerVars == <<voiceEnabled, Mode1, queueVars, googleDevices, State, wpc,
                Message, uuids, uuid, sessionVars, waited, stopVars, nextId,
                deqVars, done, countVars, outcome, waitVars, restoreObs,
                discovery, restoring>>
pipelineVars == <<workerVars, asset, madeDir>>

Ids == 0..MaxRequests

\* self.googleDevices is a dict: its entries in insertion order.  An entry
\* is the GoogleDevice object registered under the uuid, with the Name its
\* constructor stored; the field GoogleDevice is FALSE once line 663 has
\* set it to None.
Device(u, name) == [UUID |-> u, Name |-> name, GoogleDevice |-> TRUE]
\* list(reg), u in reg, reg[u], del reg[u], reg[u].GoogleDevice = None
Keys(reg) == [i \in 1..Len(reg) |-> reg[i].UUID]
Has(reg, u) == \E i \in 1..Len(reg) : reg[i].UUID = u
Entry(reg, u) == reg[CHOOSE i \in 1..Len(reg) : reg[i].UUID = u]
Del(reg, u) == SelectSeq(reg, LAMBDA e : e.UUID # u)
Detach(reg, u) ==
    [i \in 1..Len(reg) |->
        IF reg[i].UUID = u THEN [reg[i] EXCEPT !.GoogleDevice = FALSE]
        ELSE reg[i]]
\* reg[u].GoogleDevice.<attribute> evaluates: no KeyError, no AttributeError
Usable(reg, u) == Has(reg, u) /\ Entry(reg, u).GoogleDevice
\* the discovery thread is not inside discoveryCallback
NoDiscovery == [pc |-> "idle", uuid |-> ""]
Max(a, b) == IF a >= b THEN a ELSE b
Bump(f, i) == [f EXCEPT ![i] = @ + 1]

\* RoomPlanManager.__init__, and the plugin before its first heartbeat
\* None where an idx is expected: a token that is no character, so that it
\* differs from every string, the empty one <<>> included
NoIdx == <<"None">>
NoResponse == [json |-> FALSE, status |-> "", result |-> <<>>]
PlanIdle ==
    /\ state = "IDLE"
    /\ plan_idx = NoIdx
    /\ plan_device_set = {}
    /\ pending_add = <<>>
    /\ conn = "none"
    /\ triggered = FALSE
    /\ outstanding = 0
    /\ requests = <<>>
    /\ obj = NoResponse
    /\ allOK = TRUE

\* BasePlugin.__init__ with the gtts import succeeded (voiceEnabled, the
\* queue and the thread exist); onStart has started the GoogleNotify thread.
InitRest ==
    /\ voiceEnabled = TRUE
    /\ messageQueue = <<>>
    /\ unfinished = 0
    /\ stop_event = FALSE
    /\ googleDevices = <<>>
    /\ discovery = NoDiscovery
    /\ restoring = "none"
    /\ State = [u \in UUIDs |-> EmptyState]
    /\ Message = NoMessage
    /\ uuids = <<>>
    /\ uuid = "u1"
    /\ now = 0 /\ endTime = 0
    /\ sawPlaying = FALSE /\ durationSet = FALSE /\ playbackCompleted = FALSE
    /\ waited = 0
    /\ spc = "idle"
    /\ stopError = FALSE
    /\ lingering = FALSE
    /\ nextId = 0
    /\ deq = <<>>
    /\ deqStop = [i \in Ids |-> FALSE]
    /\ done = [i \in Ids |-> 0]
    /\ synthCount = 0
    /\ storeCount = 0
    /\ playCount = 0
    /\ restoreCount = 0
    /\ outcome = "none"
    /\ sigInWait = FALSE
    /\ lastWait = [point |-> "none", early |-> FALSE, sig |-> FALSE]
    /\ cancelled = NoCancel
    /\ seenPlay = FALSE /\ idleAfterPlay = FALSE
    /\ pendingAtStop = 0
    /\ captured = EmptyState
    /\ restored = NoRestore
    /\ Connection = "none"
    /\ Data = <<>>
    /\ sent = <<>>
    /\ opened = NoPath
    /\ mpc = "idle"
    /\ filePath = NoPath
    /\ messageFileSize = 0
    /\ messageFile = "none"
    /\ hadFailure = FALSE
    /\ PlanIdle

Init ==
    /\ InitRest
    /\ traffic = "all"
    /\ Mode1 \in Mode1Values
    /\ asset = [u \in UUIDs |-> NoFile]
    /\ madeDir \in BOOLEAN
    /\ wpc = "start"

\* ------------------------------------------------------------- discovery
\* BasePlugin.discoveryCallback for an audio device, run by the discovery
\* thread alongside the worker.  Lines 660-663: an entry with the same uuid
\* is disconnected and its GoogleDevice set to None.
DiscoveryCallback ==
    /\ discovery.pc = "idle"
    /\ spc \in {"idle", "put", "disconnect"}
    /\ \E u \in DOMAIN DeviceName :
          IF Has(googleDevices, u)
          THEN /\ googleDevices' = Detach(googleDevices, u)
               /\ restoring' = IF restoring = "entry" /\ uuid = u
                                THEN "detached" ELSE restoring
               /\ discovery' = [pc |-> "del", uuid |-> u]
          ELSE /\ discovery' = [pc |-> "insert", uuid |-> u]
               /\ UNCHANGED <<googleDevices, restoring>>
    /\ UNCHANGED <<otherVars, madeDir, voiceEnabled, Mode1, restoreObs,
                   queueVars, State, asset, wpc, Message, uuids, uuid,
                   sessionVars, waited, stopVars, nextId, deqVars, done,
                   countVars, outcome, waitVars>>

\* line 664: del self.googleDevices[uuid]; a KeyError (onStop has cleared
\* the registry) ends the callback in its except clause
DiscoveryDel ==
    /\ discovery.pc = "del"
    /\ IF Has(googleDevices, discovery.uuid)
       THEN /\ googleDevices' = Del(googleDevices, discovery.uuid)
            /\ discovery' = [discovery EXCEPT !.pc = "insert"]
       ELSE /\ discovery' = NoDiscovery
            /\ UNCHANGED googleDevices
    /\ UNCHANGED <<otherVars, madeDir, restoring, voiceEnabled, Mode1,
                   restoreObs, queueVars, State, asset, wpc, Message, uuids,
                   uuid, sessionVars, waited, stopVars, nextId, deqVars, done,
                   countVars, outcome, waitVars>>

\* line 666: a new GoogleDevice (Ready False, State = {}) is registered at
\* the end of the dict
DiscoveryInsert ==
    /\ discovery.pc = "insert"
    /\ googleDevices' = Append(Del(googleDevices, discovery.uuid),
                               Device(discovery.uuid,
                                      DeviceName[discovery.uuid]))
    /\ State' = [State EXCEPT ![discovery.uuid] = EmptyState]
    /\ discovery' = NoDiscovery
    /\ UNCHANGED <<otherVars, madeDir, restoring, voiceEnabled, Mode1,
                   restoreObs, queueVars, asset, wpc, Message, uuids, uuid,
                   sessionVars, waited, stopVars, nextId, deqVars, done,
                   countVars, outcome, waitVars>>

\* ------------------------------------------------------------- producers
\* The host calls the plugin's handlers one at a time, so no producer runs
\* once onStop has been entered.
\* queue.Queue.put: append, count the item as unfinished
Put(item) ==
    /\ messageQueue' = Append(messageQueue, item)
    /\ unfinished' = unfinished + 1

\* BasePlugin.onNotification
OnNotification ==
    /\ spc = "idle"
    /\ nextId < MaxRequests
    /\ IF Mode1 = ""
       THEN UNCHANGED <<queueVars, nextId>>
       ELSE /\ Put([id |-> nextId + 1, Target |-> Mode1])
            /\ nextId' = nextId + 1
    /\ UNCHANGED <<quietVars, voiceEnabled, Mode1, restoreObs, deviceVars,
                   wpc, Message, uuids, uuid, sessionVars, waited, stopVars,
                   deqVars, done, countVars, outcome, waitVars>>

\* BasePlugin.onCommand, action 'Sendnotification' on the unit of device u
OnCommandSend ==
    /\ spc = "idle"
    /\ nextId < MaxRequests
    /\ \E i \in 1..Len(googleDevices) :
          /\ googleDevices[i].GoogleDevice
          /\ Put([id |-> nextId + 1, Target |-> googleDevices[i].Name])
    /\ nextId' = nextId + 1
    /\ UNCHANGED <<quietVars, voiceEnabled, Mode1, restoreObs, deviceVars,
                   wpc, Message, uuids, uuid, sessionVars, waited, stopVars,
                   deqVars, done, countVars, outcome, waitVars>>

\* ---------------------------------------------------------------- worker
\* the worker leaves the wait it sat in; early = the wait did not run to
\* its own timeout
LeaveWait(point, early) ==
    /\ lastWait' = [point |-> point, early |-> early, sig |-> sigInWait]
    /\ sigInWait' = FALSE

\* queue.Queue.get takes the oldest item
LifoIndex(q) == Len(q)
QueueGetIndex(q) == 1
QueueRest(q) ==
    [k \in 1..(Len(q) - 1) |->
        IF k < QueueGetIndex(q) THEN q[k] ELSE q[k + 1]]

\* Dead locals.  endTime, durationSet and the clock are read only inside the
\* poll loop, sawPlaying and playbackCompleted only up to line 634, and all
\* are written again at lines 606-609 before the next read; waited is a local
\* of RestoreState, gone when it returns.  The model clears each where its
\* last read is behind it.
ClearPoll ==
    /\ now' = 0
    /\ endTime' = 0
    /\ durationSet' = FALSE

\* the locals of the session, dead once control has left the for loop
ClearLocals ==
    /\ ClearPoll
    /\ sawPlaying' = FALSE
    /\ playbackCompleted' = FALSE
    /\ seenPlay' = FALSE
    /\ idleAfterPlay' = FALSE

ClearSession ==
    /\ ClearLocals
    /\ waited' = 0
    /\ captured' = EmptyState
    /\ restored' = NoRestore

\* queue.Queue.task_done for the item the worker holds
TaskDone ==
    /\ unfinished' = unfinished - 1
    /\ done' = Bump(done, Message.id)

\* where an exception raised inside the try block of the loop continues:
\* the except clause logs, then the task_done of line 650
ExceptSkipsDone == "loop"
ExceptLeavesLoop == "exiting"
ExceptGoto == "task_done"
Except ==
    /\ wpc' = ExceptGoto
    /\ outcome' = "exception"

\* handleMessage up to the loop: GetIP, messageServer.Listen
WStart ==
    /\ wpc = "start"
    /\ \E ipFound \in BOOLEAN : voiceEnabled' = (voiceEnabled /\ ipFound)
    /\ wpc' = "loop"
    /\ UNCHANGED <<quietVars, Mode1, restoreObs, queueVars, deviceVars,
                   Message, uuids, uuid, sessionVars, waited, stopVars,
                   nextId, deqVars, done, countVars, outcome, waitVars>>

\* while voiceEnabled and not self.stop_event.is_set()
WLoop ==
    /\ wpc = "loop"
    /\ wpc' = IF voiceEnabled /\ ~stop_event THEN "get" ELSE "exiting"
    /\ UNCHANGED <<quietVars, voiceEnabled, Mode1, restoreObs, queueVars,
                   deviceVars, Message, uuids, uuid, sessionVars, waited,
                   stopVars, nextId, deqVars, done, countVars, outcome,
                   waitVars>>

\* Message = self.messageQueue.get(timeout=1.0) / except Empty: continue
WGet ==
    /\ wpc = "get"
    /\ IF messageQueue # <<>>
       THEN /\ Message' = messageQueue[QueueGetIndex(messageQueue)]
            /\ messageQueue' = QueueRest(messageQueue)
            /\ deq' = Append(deq, Message'.id)
            /\ deqStop' = [deqStop EXCEPT ![Message'.id] = stop_event]
            /\ synthCount' = 0
            /\ storeCount' = 0
            /\ playCount' = 0
            /\ restoreCount' = 0
            /\ wpc' = "dispatch"
            /\ LeaveWait("get", TRUE)
       ELSE /\ wpc' = "loop"
            /\ LeaveWait("get", FALSE)
            /\ UNCHANGED <<Message, messageQueue, deqVars, countVars>>
    /\ UNCHANGED <<quietVars, voiceEnabled, Mode1, restoreObs, unfinished,
                   deviceVars, uuids, uuid, sessionVars, waited, stopVars,
                   nextId, done, outcome>>

\* if Message is None: task_done, break; else the directory Messages is
\* made if it is not there (lines 567-569) and the for loop starts
WDispatch ==
    /\ wpc = "dispatch"
    /\ IF Message = Sentinel
       THEN /\ TaskDone
            /\ wpc' = "exiting"
            /\ UNCHANGED <<uuids, outcome, madeDir>>
       ELSE /\ madeDir' = TRUE
            /\ uuids' = Keys(googleDevices)
            /\ outcome' = "none"
            /\ wpc' = "for"
            /\ UNCHANGED <<unfinished, done>>
    /\ UNCHANGED <<otherVars, discovery, restoring, voiceEnabled, Mode1,
                   restoreObs, messageQueue, deviceVars, Message, uuid,
                   sessionVars, waited, stopVars,
                   nextId, deqVars, countVars, waitVars>>

\* the check that opens every iteration of the for loop
ForNoStopCheck == FALSE
ForStopCheck == stop_event

\* where the loop goes for a muted target (log, break) and for a target
\* that is not Ready (the else of line 642, then the next iteration)
MutedGoesOn == "synth"
MutedGoto == "task_done"
NotReadyGoesOn == "synth"
NotReadyGoto == "for"

\* for uuid in list(self.googleDevices): the next uuid of the list, and
\* the check of stop_event that opens the iteration (lines 572-574)
WFor ==
    /\ wpc = "for"
    /\ IF uuids = <<>>
       THEN /\ wpc' = "task_done"
            /\ outcome' = IF outcome = "none" THEN "notfound" ELSE outcome
            /\ UNCHANGED <<uuids, uuid>>
       ELSE /\ uuid' = Head(uuids)
            /\ uuids' = Tail(uuids)
            /\ IF ForStopCheck
               THEN /\ wpc' = "task_done"
                    /\ outcome' = "cancelled"
               ELSE /\ wpc' = "for_body"
                    /\ UNCHANGED outcome
    /\ UNCHANGED <<quietVars, voiceEnabled, Mode1, restoreObs, queueVars,
                   deviceVars, Message, sessionVars, waited, stopVars, nextId,
                   deqVars, done, countVars, waitVars>>

\* the lookups of self.googleDevices[uuid] in lines 575-579, made without
\* a lock after the check of line 573: the name, the mute flag, Ready.
\* None of them reads stop_event, and each raises once the entry is gone
\* or its GoogleDevice is None.
WForBody ==
    /\ wpc = "for_body"
    /\ IF ~Usable(googleDevices, uuid)
       THEN Except
       ELSE IF Entry(googleDevices, uuid).Name # Message.Target
       THEN /\ wpc' = "for"
            /\ UNCHANGED outcome
       ELSE \E muted \in BOOLEAN, Ready \in BOOLEAN :
               IF muted
               THEN /\ wpc' = MutedGoto
                    /\ outcome' = "muted"
               ELSE IF Ready
               THEN /\ wpc' = "synth"
                    /\ UNCHANGED outcome
               ELSE /\ wpc' = NotReadyGoto
                    /\ outcome' = "unavailable"
    /\ UNCHANGED <<quietVars, voiceEnabled, Mode1, restoreObs, queueVars,
                   deviceVars, Message, uuids, uuid, sessionVars, waited,
                   stopVars, nextId, deqVars, done, countVars, waitVars>>

\* lines 580-588 up to the first thing tts.save does: gTTS(...), then save
\* opens messageFileName for writing, which creates the file or empties
\* the one a former session left.  Either call may raise, and then the
\* file is as it was.
WSynth ==
    /\ wpc = "synth"
    /\ synthCount' = synthCount + 1
    /\ \/ /\ wpc' = ExceptGoto
          /\ outcome' = "synthfail"
          /\ UNCHANGED asset
       \/ /\ asset' = [asset EXCEPT ![uuid] = 0]
          /\ wpc' = "save"
          /\ UNCHANGED outcome
    /\ UNCHANGED <<quietVars, voiceEnabled, Mode1, restoreObs, queueVars,
                   googleDevices, State, Message, uuids, uuid, sessionVars,
                   waited, stopVars, nextId, deqVars, done, storeCount,
                   playCount, restoreCount, waitVars>>

\* tts.save after the open: the audio is fetched and written to the open
\* file part by part, and the file is closed.  A step writes a part with
\* more to come, or the request for a part raises and the file keeps what
\* was written, or save returns and lines 589-593 test that the file
\* exists.
WSave ==
    /\ wpc = "save"
    /\ \/ /\ wpc' = ExceptGoto
          /\ outcome' = "synthfail"
          /\ UNCHANGED asset
       \/ /\ asset[uuid] = 0
          /\ \E part \in PartSizes : asset' = [asset EXCEPT ![uuid] = part]
          /\ UNCHANGED <<wpc, outcome>>
       \/ /\ \E size \in FileSizes :
                /\ size >= asset[uuid]
                /\ asset' = [asset EXCEPT ![uuid] = size]
          /\ IF asset'[uuid] = NoFile
             THEN wpc' = "task_done" /\ outcome' = "synthfail"
             ELSE wpc' = "store" /\ UNCHANGED outcome
    /\ UNCHANGED <<quietVars, voiceEnabled, Mode1, restoreObs, queueVars,
                   googleDevices, State, Message, uuids, uuid, sessionVars,
                   waited, stopVars, nextId, deqVars, done, countVars,
                   waitVars>>

\* GoogleDevice.StoreState, called through self.googleDevices[uuid]
WStore ==
    /\ wpc = "store"
    /\ IF ~Has(googleDevices, uuid)
       THEN /\ Except
            /\ UNCHANGED <<State, storeCount, captured>>
       ELSE IF ~Entry(googleDevices, uuid).GoogleDevice
       THEN \* self.State.clear(), then None.status raises
            /\ storeCount' = storeCount + 1
            /\ State' = [State EXCEPT ![uuid] = EmptyState]
            /\ captured' = EmptyState
            /\ Except
       ELSE /\ storeCount' = storeCount + 1
            /\ \E hasStatus \in BOOLEAN, v \in Volumes, m \in BOOLEAN :
                  State' = [State EXCEPT ![uuid] =
                               IF hasStatus
                               THEN [has |-> TRUE, Volume |-> v, Muted |-> m]
                               ELSE EmptyState]
            /\ captured' = State'[uuid]
            /\ \E raises \in BOOLEAN :
                  IF raises THEN Except
                  ELSE wpc' = "play" /\ UNCHANGED outcome
    /\ UNCHANGED <<quietVars, voiceEnabled, Mode1, restored, queueVars,
                   googleDevices, asset, Message, uuids, uuid, sessionVars,
                   waited, stopVars, nextId, deqVars, done, synthCount,
                   playCount, restoreCount, waitVars>>

\* mc = ...media_controller; mediaUrl; fileSize; mc.play_media(...)
WPlay ==
    /\ wpc = "play"
    /\ IF ~Usable(googleDevices, uuid)
       THEN Except /\ UNCHANGED playCount
       ELSE /\ playCount' = playCount + 1
            /\ \E raises \in BOOLEAN :
                  IF raises THEN Except
                  ELSE wpc' = "await_active" /\ UNCHANGED outcome
    /\ UNCHANGED <<quietVars, voiceEnabled, Mode1, restoreObs, queueVars,
                   deviceVars, Message, uuids, uuid, sessionVars, waited,
                   stopVars, nextId, deqVars, done, synthCount, storeCount,
                   restoreCount, waitVars>>

\* mc.block_until_active(timeout=10) returns: the session became active
\* (early) or the timeout ran out
WAwaitActive ==
    /\ wpc = "await_active"
    /\ \E active \in BOOLEAN : LeaveWait("await_active", active)
    /\ wpc' = "settle"
    /\ UNCHANGED <<quietVars, voiceEnabled, Mode1, restoreObs, queueVars,
                   deviceVars, Message, uuids, uuid, sessionVars, waited,
                   stopVars, nextId, deqVars, done, countVars, outcome>>

\* estimatedDuration = fileSize * 8 / 64000, in ticks: BitRate bits a
\* second are BitRate / TicksPerSecond = 8 bits a tick, and neither division
\* leaves a remainder
EstimatedTicks(fileSize) ==
    (fileSize * BitsPerByte) \div (BitRate \div TicksPerSecond)
\* max(15, estimatedDuration + 10), in ticks
EstimateOnlyDeadline(fileSize) == EstimatedTicks(fileSize) + EstimateSlackTicks
InitialDeadline(fileSize) ==
    Max(MinDeadlineTicks, EstimatedTicks(fileSize) + EstimateSlackTicks)

\* self.stop_event.wait(1.5); if set: break; else the poll loop's variables
WSettle ==
    /\ wpc = "settle"
    /\ IF stop_event
       THEN /\ LeaveWait("settle", TRUE)
            /\ wpc' = "task_done"
            /\ outcome' = "cancelled"
            /\ UNCHANGED sessionVars
       ELSE /\ LeaveWait("settle", FALSE)
            /\ now' = 0
            /\ endTime' = InitialDeadline(asset[uuid])
            /\ sawPlaying' = FALSE
            /\ durationSet' = FALSE
            /\ playbackCompleted' = FALSE
            /\ seenPlay' = FALSE
            /\ idleAfterPlay' = FALSE
            /\ wpc' = "poll_cond"
            /\ UNCHANGED outcome
    /\ UNCHANGED <<quietVars, voiceEnabled, Mode1, restoreObs, queueVars,
                   deviceVars, Message, uuids, uuid, waited, stopVars, nextId,
                   deqVars, done, countVars>>

\* while time.time() < endTime and not self.stop_event.is_set()
WPollCond ==
    /\ wpc = "poll_cond"
    /\ IF now < endTime /\ ~stop_event
       THEN wpc' = "poll_body" /\ UNCHANGED <<now, endTime, durationSet>>
       ELSE wpc' = "flush" /\ ClearPoll
    /\ UNCHANGED <<quietVars, voiceEnabled, Mode1, restoreObs, queueVars,
                   deviceVars, Message, uuids, uuid, sawPlaying,
                   playbackCompleted, seenPlay, idleAfterPlay, waited,
                   stopVars, nextId, deqVars, done, countVars, outcome,
                   waitVars>>

\* the detector's three decisions of one tick
SawPlayingNext(saw, player_is_playing, player_is_paused) ==
    saw \/ player_is_playing \/ player_is_paused
AdjustEveryTick(saw, set, duration) == saw /\ duration # NoneVal
AdjustDeadline(saw, set, duration) == saw /\ ~set /\ duration # NoneVal
CompletedOnIdle(saw, player_is_idle) == player_is_idle
Completed(saw, player_is_idle) == saw /\ player_is_idle

\* the body of the poll loop: update_status, wait(0.5), then the reads of
\* mc.status: playing and paused (line 615), duration (617), idle (620).
\* The socket thread updates mc.status between the reads, so they are
\* independent.
WPollBody ==
    /\ wpc = "poll_body"
    /\ \E raises \in BOOLEAN :
        IF raises
        THEN /\ Except
             /\ ClearLocals
             /\ UNCHANGED waitVars
        ELSE IF stop_event
        THEN /\ LeaveWait("poll_body", TRUE)
             /\ wpc' = "flush"
             /\ ClearPoll
             /\ UNCHANGED <<sawPlaying, playbackCompleted, seenPlay,
                            idleAfterPlay, outcome>>
        ELSE /\ LeaveWait("poll_body", FALSE)
             /\ \E player_is_playing \in BOOLEAN, player_is_paused \in BOOLEAN,
                   duration \in Durations, player_is_idle \in BOOLEAN :
                  /\ ~(player_is_playing /\ player_is_paused)
                  /\ sawPlaying' = SawPlayingNext(sawPlaying,
                                        player_is_playing, player_is_paused)
                  /\ seenPlay' = (seenPlay \/ player_is_playing
                                           \/ player_is_paused)
                  /\ idleAfterPlay' = (idleAfterPlay
                                       \/ (seenPlay' /\ player_is_idle))
                  /\ IF Completed(sawPlaying', player_is_idle)
                     THEN /\ playbackCompleted' = TRUE
                          /\ wpc' = "flush"
                          /\ ClearPoll
                     ELSE /\ UNCHANGED playbackCompleted
                          /\ wpc' = "poll_cond"
                          /\ IF AdjustDeadline(sawPlaying', durationSet,
                                               duration)
                             THEN \* endTime = time.time() + duration + 5,
                                  \* the clock restarted at this reading
                                  /\ now' = 0
                                  /\ endTime' = duration * TicksPerSecond
                                                + DurationSlackTicks
                                  /\ durationSet' = TRUE
                             ELSE /\ now' = now + PollTicks
                                  /\ UNCHANGED <<endTime, durationSet>>
             /\ UNCHANGED outcome
    /\ UNCHANGED <<quietVars, voiceEnabled, Mode1, restoreObs, queueVars,
                   deviceVars, Message, uuids, uuid, waited, stopVars, nextId,
                   deqVars, done, countVars>>

\* if not self.stop_event.is_set(): self.stop_event.wait(2.0)
WFlush ==
    /\ wpc = "flush"
    /\ wpc' = IF stop_event THEN "restore" ELSE "flush_wait"
    /\ UNCHANGED <<quietVars, voiceEnabled, Mode1, restoreObs, queueVars,
                   deviceVars, Message, uuids, uuid, sessionVars, waited,
                   stopVars, nextId, deqVars, done, countVars, outcome,
                   waitVars>>

\* the wait(2.0) returns
WFlushWait ==
    /\ wpc = "flush_wait"
    /\ LeaveWait("flush_wait", stop_event)
    /\ wpc' = "restore"
    /\ UNCHANGED <<quietVars, voiceEnabled, Mode1, restoreObs, queueVars,
                   deviceVars, Message, uuids, uuid, sessionVars, waited,
                   stopVars, nextId, deqVars, done, countVars, outcome>>

\* self.googleDevices[uuid].RestoreState(self.stop_event), up to the loop
WRestore ==
    /\ wpc = "restore"
    /\ IF ~Has(googleDevices, uuid)
       THEN /\ Except
            /\ ClearLocals
            /\ UNCHANGED <<restoreCount, waited, restored, restoring>>
       ELSE /\ restoreCount' = restoreCount + 1
            /\ waited' = 0
            /\ IF State[uuid].has
               THEN /\ wpc' = "restore_loop"
                    /\ restoring' = IF Entry(googleDevices, uuid).GoogleDevice
                                     THEN "entry" ELSE "detached"
                    /\ UNCHANGED restored
               ELSE /\ wpc' = "cleanup"
                    /\ restored' = [NoRestore EXCEPT !.result = "noop"]
                    /\ UNCHANGED restoring
            /\ UNCHANGED <<outcome, sessionVars>>
    /\ UNCHANGED <<otherVars, discovery, madeDir, voiceEnabled, Mode1,
                   captured, queueVars, deviceVars, Message, uuids, uuid,
                   stopVars,
                   nextId, deqVars, done, synthCount, storeCount, playCount,
                   waitVars>>

\* while not self.Ready and waited < 10
WRestoreLoop ==
    /\ wpc = "restore_loop"
    /\ \E Ready \in BOOLEAN :
          wpc' = IF ~Ready /\ waited < RestoreMaxWaits
                 THEN "restore_wait" ELSE "restore_apply"
    /\ UNCHANGED <<quietVars, voiceEnabled, Mode1, restoreObs, queueVars,
                   deviceVars, Message, uuids, uuid, sessionVars, waited,
                   stopVars, nextId, deqVars, done, countVars, outcome,
                   waitVars>>

\* stop_event.wait(1.0); if set: return; waited += 1
WRestoreWait ==
    /\ wpc = "restore_wait"
    /\ LeaveWait("restore_wait", stop_event)
    /\ IF stop_event
       THEN /\ wpc' = "cleanup"
            /\ restored' = [NoRestore EXCEPT !.result = "cancelled"]
            /\ restoring' = "none"
            /\ waited' = 0
       ELSE /\ wpc' = "restore_loop"
            /\ waited' = waited + 1
            /\ UNCHANGED <<restored, restoring>>
    /\ UNCHANGED <<otherVars, discovery, madeDir, voiceEnabled, Mode1,
                   captured, queueVars, deviceVars, Message, uuids, uuid,
                   sessionVars, stopVars,
                   nextId, deqVars, done, countVars, outcome>>

\* quit_app in a try block of its own, then the two commands of the second
\* try block of RestoreState: set_volume then set_volume_muted, either of
\* which may raise (the except logs it).
RestoreCommandRuns == {"ok", "set_volume raises", "set_volume_muted raises"}
\* self.GoogleDevice is None: quit_app and set_volume are not called, the
\* AttributeError of each is caught and logged
RestoreCommands(s, commands) ==
    [result |-> IF commands = "ok" THEN "applied" ELSE "failed",
     quitSent |-> commands # "no device",
     Volume |-> IF commands \in {"set_volume raises", "no device"}
                THEN NoneVal ELSE s.Volume,
     muteSent |-> commands = "ok",
     Muted |-> commands = "ok" /\ s.Muted]

\* if not self.Ready: (log the error) return
NotReadyGoesOnRestoring(Ready) == FALSE
NotReadyReturns(Ready) == ~Ready
\* lines 506-519: the commands sent, and "notready" for the error logged
\* when self.Ready was false
RestoreApply(Ready, s, commands) ==
    [(IF NotReadyReturns(Ready) THEN NoRestore
      ELSE RestoreCommands(s, commands))
        EXCEPT !.result = IF Ready THEN @ ELSE "notready"]
\* self.State of the object RestoreState was called on.  A re-registration
\* during the wait replaces the entry of the registry, not this object,
\* whose State is still what StoreState left in this session.
RestoringState ==
    IF State[uuid].has THEN State[uuid] ELSE captured
WRestoreApply ==
    /\ wpc = "restore_apply"
    /\ wpc' = "cleanup"
    /\ \E Ready \in BOOLEAN,
          commands \in IF restoring = "detached" THEN {"no device"}
                       ELSE RestoreCommandRuns :
          restored' = RestoreApply(Ready, RestoringState, commands)
    /\ restoring' = "none"
    /\ waited' = 0
    /\ UNCHANGED <<otherVars, discovery, madeDir, voiceEnabled, Mode1,
                   captured, queueVars, deviceVars, Message, uuids, uuid,
                   sessionVars,
                   stopVars, nextId, deqVars, done, countVars, outcome,
                   waitVars>>

\* if playbackCompleted: os.remove(messageFileName) else: log the timeout
RemoveAlways(completed) == TRUE
RemoveAsset(completed) == completed
WCleanup ==
    /\ wpc = "cleanup"
    /\ IF RemoveAsset(playbackCompleted)
       THEN /\ asset' = [asset EXCEPT ![uuid] = NoFile]
            /\ outcome' = "completed"
       ELSE /\ outcome' = "timeout"
            /\ UNCHANGED asset
    /\ wpc' = "for"
    /\ ClearSession
    /\ UNCHANGED <<quietVars, voiceEnabled, Mode1, queueVars, googleDevices,
                   State, Message, uuids, uuid, stopVars, nextId, deqVars,
                   done, countVars, waitVars>>

\* self.messageQueue.task_done() that closes every iteration
WTaskDone ==
    /\ wpc = "task_done"
    /\ TaskDone
    /\ wpc' = "loop"
    /\ ClearSession
    /\ uuids' = <<>>
    /\ UNCHANGED <<quietVars, voiceEnabled, Mode1, messageQueue, deviceVars,
                   Message, uuid, stopVars, nextId, deqVars, countVars,
                   outcome, waitVars>>

\* the thread function returns
WExit ==
    /\ wpc = "exiting"
    /\ wpc' = "exited"
    /\ UNCHANGED <<quietVars, voiceEnabled, Mode1, restoreObs, queueVars,
                   deviceVars, Message, uuids, uuid, sessionVars, waited,
                   stopVars, nextId, deqVars, done, countVars, outcome,
                   waitVars>>

Worker ==
    \/ WStart \/ WLoop \/ WGet \/ WDispatch \/ WFor \/ WForBody \/ WSynth
    \/ WSave \/ WStore \/ WPlay \/ WAwaitActive \/ WSettle \/ WPollCond
    \/ WPollBody \/ WFlush
    \/ WFlushWait \/ WRestore \/ WRestoreLoop \/ WRestoreWait
    \/ WRestoreApply \/ WCleanup \/ WTaskDone \/ WExit

\* ---------------------------------------------------------------- onStop
\* self.stop_event.set()
OnStopSet ==
    /\ spc = "idle"
    /\ stop_event' = TRUE
    /\ spc' = "put"
    /\ pendingAtStop' = unfinished
    /\ sigInWait' = (wpc \in WaitPoints)
    /\ cancelled' = IF wpc \in SessionPoints
                    THEN [id |-> Message.id, point |-> wpc] ELSE NoCancel
    /\ UNCHANGED <<quietVars, voiceEnabled, Mode1, restoreObs, queueVars,
                   deviceVars, wpc, Message, uuids, uuid, sessionVars, waited,
                   stopError, lingering, nextId, deqVars, done, countVars,
                   outcome, lastWait>>

\* self.messageQueue.put(None)
OnStopPut ==
    /\ spc = "put"
    /\ Put(Sentinel)
    /\ spc' = "disconnect"
    /\ UNCHANGED <<quietVars, voiceEnabled, Mode1, restoreObs, deviceVars,
                   wpc, Message, uuids, uuid, sessionVars, waited, stop_event,
                   stopError, lingering, pendingAtStop, cancelled, nextId,
                   deqVars, done, countVars, outcome, waitVars>>

\* stop_discovery; disconnect every device; self.googleDevices.clear().
\* GoogleDevice.disconnect(timeout=5) joins the cast's socket thread for 5 s
\* at most and returns whether or not the thread has ended.
OnStopDisconnect ==
    /\ spc = "disconnect"
    /\ lingering' \in IF \E u \in UUIDs : Usable(googleDevices, u)
                      THEN BOOLEAN ELSE {FALSE}
    /\ googleDevices' = <<>>
    /\ restoring' = IF restoring = "entry" THEN "orphan" ELSE restoring
    /\ spc' = "join"
    /\ UNCHANGED <<otherVars, discovery, madeDir, voiceEnabled, Mode1,
                   restoreObs, queueVars, State, asset, wpc, Message, uuids,
                   uuid, sessionVars,
                   waited, stop_event, stopError, pendingAtStop, cancelled,
                   nextId, deqVars, done, countVars, outcome, waitVars>>

\* queue.Queue.join returns when no put item is left without task_done
JoinOnEmpty == messageQueue = <<>>
JoinReturns == unfinished = 0

\* self.messageQueue.join()
OnStopJoin ==
    /\ spc = "join"
    /\ JoinReturns
    /\ spc' = "thread_join"
    /\ UNCHANGED <<quietVars, voiceEnabled, Mode1, restoreObs, queueVars,
                   deviceVars, wpc, Message, uuids, uuid, sessionVars, waited,
                   stop_event, stopError, lingering, pendingAtStop, cancelled,
                   nextId, deqVars, done, countVars, outcome, waitVars>>

\* if is_alive(): self.messageThread.join(timeout=5.0); error if still alive
OnStopThreadJoin ==
    /\ spc = "thread_join"
    /\ stopError' = (stopError \/ wpc # "exited")
    /\ spc' = "threads"
    /\ UNCHANGED <<quietVars, voiceEnabled, Mode1, restoreObs, queueVars,
                   deviceVars, wpc, Message, uuids, uuid, sessionVars, waited,
                   stop_event, lingering, pendingAtStop, cancelled, nextId,
                   deqVars, done, countVars, outcome, waitVars>>

\* the bounded wait (max_wait = 30) for the plugin's threads, then the
\* report: an error for every thread but the current one and MainThread
\* that is alive.  These are the worker, the discovery thread while it runs
\* discoveryCallback, the socket thread of a cast registered after
\* googleDevices.clear() (GoogleDevice.__init__ starts it, nothing stops
\* it), and that of a cast whose disconnect timed out unless it ended
\* during the wait.
OnStopThreads ==
    /\ spc = "threads"
    /\ \E alive \in IF lingering THEN BOOLEAN ELSE {FALSE} :
          stopError' = (\/ stopError
                        \/ wpc # "exited"
                        \/ discovery.pc # "idle"
                        \/ \E u \in UUIDs : Usable(googleDevices, u)
                        \/ alive)
    /\ lingering' = FALSE
    /\ spc' = "done"
    /\ UNCHANGED <<quietVars, voiceEnabled, Mode1, restoreObs, queueVars,
                   deviceVars, wpc, Message, uuids, uuid, sessionVars, waited,
                   stop_event, pendingAtStop, cancelled, nextId, deqVars,
                   done, countVars, outcome, waitVars>>

\* onStop after its first statement
OnStopRest ==
    \/ OnStopPut \/ OnStopDisconnect \/ OnStopJoin
    \/ OnStopThreadJoin \/ OnStopThreads

Next ==
    \/ DiscoveryCallback \/ DiscoveryDel \/ DiscoveryInsert
    \/ OnNotification \/ OnCommandSend
    \/ Worker
    \/ OnStopSet \/ OnStopRest

Spec == Init /\ [][Next]_vars

\* The configuration the progress properties are checked in: Mode1 names
\* the audio device, so both producers queue requests for it.  No action
\* but onNotification reads Mode1, so the behaviours with Mode1 = "" are
\* the ones of this configuration in which onNotification is not called.
FairInit == Init /\ Mode1 = "Kitchen" /\ ~madeDir

\* Both threads are scheduled: the worker keeps running, and onStop, once
\* it has been called, keeps running.  Whether and when the host calls
\* onStop or a producer, and when a device is discovered, is left open.
FairSpec ==
    FairInit /\ [][Next]_vars /\ WF_vars(Worker) /\ WF_vars(OnStopRest)

\* Two audio devices that carry the same friendly name, both discovered
\* (discoveryCallback ran for each) before the first request arrives.
SharedNames == [u \in UUIDs |-> "Kitchen"]
\* the orders in which the two can have been discovered
SharedNameInit ==
    /\ traffic = "all"
    /\ voiceEnabled = TRUE
    /\ Mode1 = ""
    /\ messageQueue = <<>>
    /\ unfinished = 0
    /\ stop_event = FALSE
    /\ \E order \in {<<"u1", "u2">>, <<"u2", "u1">>} :
          googleDevices = [i \in 1..2 |->
                              Device(order[i], SharedNames[order[i]])]
    /\ discovery = NoDiscovery
    /\ restoring = "none"
    /\ madeDir \in BOOLEAN
    /\ State = [u \in UUIDs |-> EmptyState]
    /\ asset = [u \in UUIDs |-> NoFile]
    /\ wpc = "start"
    /\ Message = NoMessage
    /\ uuids = <<>>
    /\ uuid = "u1"
    /\ now = 0 /\ endTime = 0
    /\ sawPlaying = FALSE /\ durationSet = FALSE /\ playbackCompleted = FALSE
    /\ waited = 0
    /\ spc = "idle"
    /\ stopError = FALSE
    /\ lingering = FALSE
    /\ nextId = 0
    /\ deq = <<>>
    /\ deqStop = [i \in Ids |-> FALSE]
    /\ done = [i \in Ids |-> 0]
    /\ synthCount = 0
    /\ storeCount = 0
    /\ playCount = 0
    /\ restoreCount = 0
    /\ outcome = "none"
    /\ sigInWait = FALSE
    /\ lastWait = [point |-> "none", early |-> FALSE, sig |-> FALSE]
    /\ cancelled = NoCancel
    /\ seenPlay = FALSE /\ idleAfterPlay = FALSE
    /\ pendingAtStop = 0
    /\ captured = EmptyState
    /\ restored = NoRestore
    /\ Connection = "none"
    /\ Data = <<>>
    /\ sent = <<>>
    /\ opened = NoPath
    /\ mpc = "idle"
    /\ filePath = NoPath
    /\ messageFileSize = 0
    /\ messageFile = "none"
    /\ hadFailure = FALSE
    /\ PlanIdle
SharedNameNext == OnCommandSend \/ Worker
SharedNameSpec == SharedNameInit /\ [][SharedNameNext]_vars

\* ---------------------------------------------------------- media server
\* BasePlugin.onMessage on a connection of self.messageServer.  A string is
\* a sequence of tokens: '/', '?', '=', '-', ' ' and the digits are tokens of
\* their own, a file or directory name is one token.
MaxPos == 5
KB_TO_XMIT == 16384
AssetSizes == {0, 1, 4}

Min(a, b) == IF a <= b THEN a ELSE b
DigitChars == <<"0", "1", "2", "3", "4", "5", "6", "7", "8", "9">>
IsDigit(c) == \E d \in 1..10 : DigitChars[d] = c
DigitValue(c) == (CHOOSE d \in 1..10 : DigitChars[d] = c) - 1

\* str(n) of an integer
RECURSIVE Decimal(_)
Decimal(n) ==
    IF n < 0 THEN <<"-">> \o Decimal(0 - n)
    ELSE IF n < 10 THEN <<DigitChars[n + 1]>>
    ELSE Decimal(n \div 10) \o <<DigitChars[(n % 10) + 1]>>

\* int(s): blanks around the number are dropped; then an optional sign and
\* decimal digits, with single underscores between digits; ValueError
\* otherwise
RECURSIVE Strip(_)
Strip(s) ==
    IF s = <<>> THEN s
    ELSE IF Head(s) = " " THEN Strip(Tail(s))
    ELSE IF s[Len(s)] = " " THEN Strip(SubSeq(s, 1, Len(s) - 1))
    ELSE s
Unsigned(s) ==
    IF Strip(s) # <<>> /\ Head(Strip(s)) \in {"-", "+"}
    THEN Tail(Strip(s)) ELSE Strip(s)
IntOk(s) ==
    LET d == Unsigned(s)
    IN  /\ d # <<>>
        /\ \A i \in 1..Len(d) :
              \/ IsDigit(d[i])
              \/ /\ d[i] = "_"
                 /\ 1 < i /\ i < Len(d)
                 /\ IsDigit(d[i - 1]) /\ IsDigit(d[i + 1])
RECURSIVE DigitsValue(_)
DigitsValue(s) ==
    IF s = <<>> THEN 0
    ELSE 10 * DigitsValue(SubSeq(s, 1, Len(s) - 1)) + DigitValue(s[Len(s)])
IntVal(s) ==
    LET digits == SelectSeq(Unsigned(s), LAMBDA c : c # "_")
    IN  IF Head(Strip(s)) = "-" THEN 0 - DigitsValue(digits)
        ELSE DigitsValue(digits)

\* s.find(c), s[k:], s.split(c, 1), s.split(c)[0], s.lstrip(c)
Find(s, c) ==
    IF \E i \in 1..Len(s) : s[i] = c
    THEN (CHOOSE i \in 1..Len(s) :
             s[i] = c /\ \A j \in 1..(i - 1) : s[j] # c) - 1
    ELSE 0 - 1
From(s, k) == SubSeq(s, k + 1, Len(s))
Split1(s, c) ==
    IF Find(s, c) < 0 THEN <<s>>
    ELSE <<SubSeq(s, 1, Find(s, c)), From(s, Find(s, c) + 1)>>
Unsplit(s, c) == s
Before(s, c) == Split1(s, c)[1]
RECURSIVE Lstrip(_, _)
Lstrip(s, c) ==
    IF s # <<>> /\ Head(s) = c THEN Lstrip(Tail(s), c) ELSE s

\* The file system under Parameters['HomeFolder']: the plugin's own file
\* and, once the worker has made it (line 569) or when an earlier run left
\* it, the directory Messages and in it <uuid>.mp3 of the size the worker
\* wrote.
HomeFolder == <<"home">>
messagesDir == <<"home", "Messages">>
Disk == [made |-> madeDir, size |-> asset]
Dirs(disk) ==
    {<<>>, HomeFolder} \cup (IF disk.made THEN {messagesDir} ELSE {})
PluginFile == <<"home", "plugin.py">>
PluginBytes == <<35, 33, 47>>
AssetPath(u) ==
    Append(messagesDir, IF u = "u1" THEN "u1.mp3" ELSE "u2.mp3")
AssetBytes(size) == [i \in 1..size |-> (7 * i + 3) % 256]
Files(disk) ==
    {PluginFile}
    \cup {AssetPath(u) : u \in {v \in UUIDs : disk.size[v] # NoFile}}
Content(path, disk) ==
    IF path = PluginFile THEN PluginBytes
    ELSE AssetBytes(disk.size[CHOOSE u \in UUIDs : AssetPath(u) = path])

\* the components of a relative path, and the file or directory the system
\* reaches from cur along them: NoPath when there is none.  A path that
\* ends in a separator names a directory, as one that ends in '/.' does.
RECURSIVE PathComponents(_)
PathComponents(s) ==
    IF s = <<>> THEN <<>>
    ELSE IF Head(s) = "/"
    THEN IF Tail(s) = <<>> THEN <<".">> ELSE PathComponents(Tail(s))
    ELSE <<Head(s)>> \o PathComponents(Tail(s))
RECURSIVE Walk(_, _, _)
Walk(cur, comps, disk) ==
    IF comps = <<>>
    THEN IF cur \in Dirs(disk) \cup Files(disk) THEN cur ELSE NoPath
    ELSE IF cur \notin Dirs(disk) THEN NoPath
    ELSE Walk(IF Head(comps) = "." THEN cur
              ELSE IF Head(comps) = ".."
              THEN \* the parent directory, the root being its own
                   SubSeq(cur, 1, Max(Len(cur), 1) - 1)
              ELSE Append(cur, Head(comps)),
              Tail(comps), disk)

\* os.path.join(messagesDir, urlPath.lstrip('/')) with
\* urlPath = Data['URL'].split('?')[0], as the file system resolves it
FilePath(url, disk) ==
    Walk(messagesDir, PathComponents(Lstrip(Before(url, "?"), "/")), disk)

\* messageFile.seek(start); messageFile.read(chunkSize): the size -1 reads
\* up to the end of the file, a size below -1 raises ValueError
ReadRaises(chunkSize) == chunkSize < -1
Read(content, start, chunkSize) ==
    IF ReadRaises(chunkSize) THEN <<"ValueError">>
    ELSE SubSeq(content, start + 1,
                IF chunkSize = -1 THEN Len(content)
                ELSE Min(start + chunkSize, Len(content)))

cacheableHeaders ==
    [h \in {"Content-Type", "Accept-Ranges", "Cache-Control", "Pragma",
            "Expires"} |->
        CASE h = "Content-Type" -> <<"audio/mpeg">>
          [] h = "Accept-Ranges" -> <<"bytes">>
          [] h = "Cache-Control" -> <<"public">>
          [] h = "Pragma" -> <<"cache">>
          [] h = "Expires" -> <<"0">>]
noCacheHeaders ==
    [h \in {"Content-Type", "Accept-Ranges", "Cache-Control", "Pragma",
            "Expires"} |->
        CASE h = "Content-Type" -> <<"audio/mpeg">>
          [] h = "Accept-Ranges" -> <<"bytes">>
          [] h = "Cache-Control" -> <<"no-store, no-cache, must-revalidate">>
          [] h = "Pragma" -> <<"no-cache">>
          [] h = "Expires" -> <<"0">>]

\* what one call leaves behind: the responses sent and the file opened
Raised(path) == [sent |-> <<>>, opened |-> path]
Answer(response, path) == [sent |-> <<response>>, opened |-> path]

ChunkSizeExclusive(start, end) == end - start
ChunkSize(start, end) == end - start + 1

\* lines 774-789: the Range branch, for the path and size found before and
\* the files there are when it runs; open fails on a directory and on a
\* path that is gone
RangeAnswer(rangeHeader, path, size, disk) ==
    LET rangeSpec == From(rangeHeader, Find(rangeHeader, "=") + 1)
        parts == Split1(rangeSpec, "-")
    IN  IF parts[1] # <<>> /\ ~IntOk(parts[1]) THEN Raised(NoPath)
        ELSE IF Len(parts) < 2 THEN Raised(NoPath)
        ELSE IF parts[2] # <<>> /\ ~IntOk(parts[2]) THEN Raised(NoPath)
        ELSE LET fileStartPosition ==
                     IF parts[1] # <<>> THEN IntVal(parts[1]) ELSE 0
                 fileEndPosition ==
                     IF parts[2] # <<>>
                     THEN Min(IntVal(parts[2]), size - 1)
                     ELSE Min(fileStartPosition + KB_TO_XMIT - 1, size - 1)
                 chunkSize == ChunkSize(fileStartPosition, fileEndPosition)
                 fileContent == Read(Content(path, disk),
                                     fileStartPosition, chunkSize)
             IN  IF path \notin Files(disk) THEN Raised(NoPath)
                 ELSE IF fileStartPosition < 0 THEN Raised(path)
                 ELSE IF ReadRaises(chunkSize) THEN Raised(path)
                 ELSE Answer(
                        [Status |-> "206 Partial Content",
                         Headers |->
                            ("Content-Range" :>
                                (<<"bytes", " ">>
                                 \o Decimal(fileStartPosition) \o <<"-">>
                                 \o Decimal(fileEndPosition) \o <<"/">>
                                 \o Decimal(size))
                             @@ "Content-Length" :> Decimal(Len(fileContent))
                             @@ noCacheHeaders),
                         Data |-> fileContent],
                        path)

\* lines 791-795: the whole file
FullAnswer(path, size, disk) ==
    IF path \notin Files(disk) THEN Raised(NoPath)
    ELSE Answer([Status |-> "200 OK",
                 Headers |-> ("Content-Length" :> Decimal(size)
                              @@ noCacheHeaders),
                 Data |-> Content(path, disk)],
                path)

\* os.path.getsize: the length of a file, the size of a directory entry
DirEntrySize == 4096
GetSize(path, disk) ==
    IF path \in Dirs(disk) THEN DirEntrySize ELSE Len(Content(path, disk))

\* lines 739-758
HeaderCode(data, disk) ==
    IF "Verb" \notin DOMAIN data THEN "400 Bad Request"
    ELSE IF data.Verb # "GET" THEN "405 Method Not Allowed"
    ELSE IF "URL" \notin DOMAIN data THEN "400 Bad Request"
    ELSE IF "Headers" \notin DOMAIN data THEN "400 Bad Request"
    ELSE IF FilePath(data.URL, disk) = NoPath THEN "404 File Not Found"
    ELSE "200 OK"

\* lines 737-802, run with the files unchanged from start to end
Handle(data, disk) ==
    IF HeaderCode(data, disk) # "200 OK"
    THEN Answer([Status |-> HeaderCode(data, disk)], NoPath)
    ELSE IF "Range" \in DOMAIN data.Headers
    THEN RangeAnswer(data.Headers.Range, FilePath(data.URL, disk),
                     GetSize(FilePath(data.URL, disk), disk), disk)
    ELSE FullAnswer(FilePath(data.URL, disk),
                    GetSize(FilePath(data.URL, disk), disk), disk)

\* the requests the model sends
Bytes == <<"bytes">>
RangeHeaderOf(a, b) == Bytes \o <<"=">> \o Decimal(a) \o <<"-">> \o Decimal(b)
RangeHeaders ==
    {RangeHeaderOf(a, b) : a \in 0..MaxPos, b \in 0..MaxPos}
    \cup {Bytes \o <<"=">> \o Decimal(a) \o <<"-">> : a \in 0..MaxPos}
    \cup {Bytes \o <<"=", "-">> \o Decimal(b) : b \in 0..MaxPos}
    \cup {Bytes \o <<"=", "-">>, Bytes \o <<"=", "2">>,
          Bytes \o <<"=", "x", "-", "3">>, Bytes \o <<"=", "2", "-", "-", "1">>,
          Bytes \o <<"=", " ", "1", "-", "2", " ">>,
          Bytes \o <<"=", "+", "1", "-", "0", "_", "3">>,
          Bytes \o <<"=", "1", "-", "_", "3">>}
HeaderSets ==
    {[Host |-> <<"host">>]}
    \cup {[Host |-> <<"host">>, Range |-> r] : r \in RangeHeaders}
URLs ==
    {<<"/", "u1.mp3">>, <<"/", "u1.mp3", "?", "t", "=", "1">>,
     <<"/", "/", "u1.mp3">>, <<"/", "u2.mp3">>, <<"/">>,
     <<"/", "u1.mp3", "/">>,
     <<"/", "..", "/", "plugin.py">>,
     <<"/", "..", "/", "Messages", "/", "u1.mp3">>}
Verbs == {"GET", "POST"}
PlainHeaders == {[Host |-> <<"host">>],
                 [Host |-> <<"host">>, Range |-> RangeHeaderOf(0, 1)]}
Requests ==
    {[Verb |-> "GET", URL |-> u, Headers |-> h] :
        u \in URLs, h \in HeaderSets}
    \cup {[Verb |-> "POST", URL |-> u, Headers |-> h] :
            u \in {<<"/", "u1.mp3">>, <<"/", "u2.mp3">>}, h \in PlainHeaders}
    \cup {[URL |-> <<"/", "u1.mp3">>, Headers |-> h] : h \in PlainHeaders}
    \cup {[Verb |-> v, Headers |-> h] : v \in Verbs, h \in PlainHeaders}
    \cup {[Verb |-> v, URL |-> u] :
            v \in Verbs, u \in {<<"/", "u1.mp3">>, <<"/", "u2.mp3">>}}
\* the connections a message arrives on, with the requests sent on each
Arrivals ==
    {<<"messageServer", data>> : data \in Requests}
    \cup {<<"unknown", [Verb |-> "GET", URL |-> <<"/", "u1.mp3">>,
                        Headers |-> h]>> : h \in PlainHeaders}

\* the requests for open-ended ranges of a large asset
OpenStarts == (0..(MaxPos + 3)) \cup {16383, 16384, 16389, 16390}
OpenEndedRanges ==
    {Bytes \o <<"=">> \o Decimal(a) \o <<"-">> : a \in OpenStarts}
    \cup {Bytes \o <<"=", "-">>} \cup {RangeHeaderOf(a, 16389) : a \in {0, 5, 6}}
OpenEndedArrivals ==
    {<<"messageServer", [Verb |-> "GET", URL |-> u,
                         Headers |-> [Host |-> <<"host">>, Range |-> r]]>> :
        u \in {<<"/", "u1.mp3">>, <<"/", "u1.mp3", "?", "t", "=", "1">>},
        r \in OpenEndedRanges}
\* the requests a receiver sends while the worker ends the session: for
\* the asset, whole and in ranges, well-formed and not, for the directory
\* itself and for other files
RaceRanges ==
    {RangeHeaderOf(1, 2), Bytes \o <<"=", "0", "-">>,
     Bytes \o <<"=", "x", "-", "3">>, Bytes \o <<"=", "2">>}
RaceArrivals ==
    {<<"messageServer", [Verb |-> "GET", URL |-> u, Headers |-> h]>> :
        u \in {<<"/", "u1.mp3">>, <<"/", "u1.mp3", "?", "t", "=", "1">>,
               <<"/">>, <<"/", "u2.mp3">>, <<"/", "..", "/", "plugin.py">>},
        h \in {[Host |-> <<"host">>]}
               \cup {[Host |-> <<"host">>, Range |-> r] : r \in RaceRanges}}
    \cup {<<"messageServer", [Verb |-> "POST", URL |-> <<"/", "u1.mp3">>,
                              Headers |-> [Host |-> <<"host">>]]>>,
          <<"messageServer", [URL |-> <<"/", "u1.mp3">>,
                              Headers |-> [Host |-> <<"host">>]]>>}
ArrivalsOf(clients) ==
    CASE clients = "open-ended" -> OpenEndedArrivals
      [] clients = "race" -> RaceArrivals
      [] OTHER -> Arrivals

\* lines 801-802, and how a call ends: what it sent and opened is on
\* record and its locals are gone
EscapesOnFailure(result) == IF result.sent = <<>> THEN "dead" ELSE "idle"
AfterCall(result) == "idle"
MessageFileAfter(result) ==
    IF result.opened # NoPath THEN "closed" ELSE "none"
Finish(result) ==
    /\ sent' = result.sent
    /\ opened' = result.opened
    /\ messageFile' = MessageFileAfter(result)
    /\ hadFailure' = (hadFailure \/ result.sent = <<>>)
    /\ mpc' = AfterCall(result)
    /\ filePath' = NoPath
    /\ messageFileSize' = 0

\* lines 723-762: a message arrives; the connection test, the tests of the
\* request and os.path.exists, and the answer to a request that fails one.
\* The host calls the handlers one at a time, the worker thread runs
\* alongside.
OnMessage ==
    /\ mpc = "idle"
    /\ \E arrival \in ArrivalsOf(traffic) :
          /\ Connection' = arrival[1]
          /\ Data' = arrival[2]
          /\ IF arrival[1] # "messageServer"
             THEN /\ sent' = <<>>
                  /\ opened' = NoPath
                  /\ messageFile' = "none"
                  /\ UNCHANGED <<mpc, filePath, messageFileSize, hadFailure>>
             ELSE IF HeaderCode(arrival[2], Disk) # "200 OK"
             THEN Finish(Answer([Status |-> HeaderCode(arrival[2], Disk)],
                                NoPath))
             ELSE /\ mpc' = "getsize"
                  /\ filePath' = FilePath(arrival[2].URL, Disk)
                  /\ sent' = <<>>
                  /\ opened' = NoPath
                  /\ messageFile' = "none"
                  /\ UNCHANGED <<messageFileSize, hadFailure>>
    /\ UNCHANGED <<pipelineVars, planVars, traffic>>

\* line 764: os.path.getsize(filePath), which raises when the file is gone
OnMessageSize ==
    /\ mpc = "getsize"
    /\ IF filePath \notin Dirs(Disk) \cup Files(Disk)
       THEN Finish(Raised(NoPath))
       ELSE /\ messageFileSize' = GetSize(filePath, Disk)
            /\ mpc' = "read"
            /\ UNCHANGED <<sent, opened, messageFile, filePath, hadFailure>>
    /\ UNCHANGED <<pipelineVars, planVars, traffic, Connection, Data>>

\* the files after open(filePath, mode='rb'), read and close
FilesAfterTruncate(disk, path) ==
    [u \in UUIDs |-> IF path = AssetPath(u) /\ disk[u] # NoFile THEN 0
                     ELSE disk[u]]
FilesAfterRead(disk, path) == disk
\* lines 765-802: the headers, the Range branch or the whole file, Send and
\* close
OnMessageRead ==
    /\ mpc = "read"
    /\ asset' = FilesAfterRead(asset, filePath)
    /\ Finish(IF "Range" \in DOMAIN Data.Headers
              THEN RangeAnswer(Data.Headers.Range, filePath, messageFileSize,
                               Disk)
              ELSE FullAnswer(filePath, messageFileSize, Disk))
    /\ UNCHANGED <<workerVars, madeDir, planVars, traffic, Connection, Data>>

\* The server is up once the worker has called messageServer.Listen
\* (line 552); Messages may hold an asset that an earlier session left.
ServerInit ==
    /\ InitRest
    /\ traffic = "all"
    /\ Mode1 = ""
    /\ asset \in [UUIDs -> {NoFile} \cup AssetSizes]
    /\ asset["u2"] = NoFile
    /\ madeDir \in BOOLEAN
    /\ asset["u1"] # NoFile => madeDir
    /\ wpc = "loop"

ServerNext == OnMessage \/ OnMessageSize \/ OnMessageRead

ServerSpec == ServerInit /\ [][ServerNext]_vars

\* The same server with a large asset on disk and clients that ask for
\* open-ended ranges of it.
LargeSizes == {4, 16384, 16390}
OpenEndedInit ==
    /\ InitRest
    /\ traffic = "open-ended"
    /\ Mode1 = ""
    /\ asset \in [UUIDs -> {NoFile} \cup LargeSizes]
    /\ asset["u1"] # NoFile
    /\ asset["u2"] = NoFile
    /\ madeDir = TRUE
    /\ wpc = "loop"

OpenEndedSpec == OpenEndedInit /\ [][ServerNext]_vars

\* The media server while the worker ends a session: the device Kitchen
\* was discovered, one notification was synthesised to Messages/u1.mp3 and
\* played to the end, the state was restored, and the worker is about to
\* remove the asset (lines 634-637) while receivers still send requests.
RaceInit ==
    /\ traffic = "race"
    /\ voiceEnabled = TRUE
    /\ Mode1 = ""
    /\ messageQueue = <<>>
    /\ unfinished = 1
    /\ stop_event = FALSE
    /\ googleDevices = <<Device("u1", "Kitchen")>>
    /\ discovery = NoDiscovery
    /\ restoring = "none"
    /\ madeDir = TRUE
    /\ State = [u \in UUIDs |->
                  IF u = "u1" THEN [has |-> TRUE, Volume |-> 40,
                                    Muted |-> FALSE]
                  ELSE EmptyState]
    /\ asset = [u \in UUIDs |-> IF u = "u1" THEN 42000 ELSE NoFile]
    /\ wpc = "cleanup"
    /\ Message = [id |-> 1, Target |-> "Kitchen"]
    /\ uuids = <<>>
    /\ uuid = "u1"
    /\ now = 0 /\ endTime = 0
    /\ sawPlaying = TRUE /\ durationSet = FALSE /\ playbackCompleted = TRUE
    /\ waited = 0
    /\ spc = "idle"
    /\ stopError = FALSE
    /\ lingering = FALSE
    /\ nextId = 1
    /\ deq = <<1>>
    /\ deqStop = [i \in Ids |-> FALSE]
    /\ done = [i \in Ids |-> 0]
    /\ synthCount = 1
    /\ storeCount = 1
    /\ playCount = 1
    /\ restoreCount = 1
    /\ outcome = "none"
    /\ sigInWait = FALSE
    /\ lastWait = [point |-> "flush_wait", early |-> FALSE, sig |-> FALSE]
    /\ cancelled = NoCancel
    /\ seenPlay = TRUE /\ idleAfterPlay = TRUE
    /\ pendingAtStop = 0
    /\ captured = [has |-> TRUE, Volume |-> 40, Muted |-> FALSE]
    /\ restored = [result |-> "applied", quitSent |-> TRUE, Volume |-> 40,
                   muteSent |-> TRUE, Muted |-> FALSE]
    /\ Connection = "none"
    /\ Data = <<>>
    /\ sent = <<>>
    /\ opened = NoPath
    /\ mpc = "idle"
    /\ filePath = NoPath
    /\ messageFileSize = 0
    /\ messageFile = "none"
    /\ hadFailure = FALSE
    /\ PlanIdle
RaceNext == WCleanup \/ OnMessage \/ OnMessageSize \/ OnMessageRead
RaceSpec == RaceInit /\ [][RaceNext]_vars

\* The media server while the worker starts a repeat notification: the
\* first request to Kitchen left Messages/u1.mp3 behind (its session did
\* not complete), the second one was dequeued and the worker is about to
\* synthesise it into the same file (lines 586-588) while receivers still
\* send requests: a request can find the old file, the emptied one, the
\* one written in part and the new one, and a different one at each of
\* its three steps.
OverwriteInit ==
    /\ traffic = "race"
    /\ voiceEnabled = TRUE
    /\ Mode1 = ""
    /\ messageQueue = <<>>
    /\ unfinished = 1
    /\ stop_event = FALSE
    /\ googleDevices = <<Device("u1", "Kitchen")>>
    /\ discovery = NoDiscovery
    /\ restoring = "none"
    /\ madeDir = TRUE
    /\ State = [u \in UUIDs |-> EmptyState]
    /\ asset = [u \in UUIDs |-> IF u = "u1" THEN 42000 ELSE NoFile]
    /\ wpc = "synth"
    /\ Message = [id |-> 2, Target |-> "Kitchen"]
    /\ uuids = <<>>
    /\ uuid = "u1"
    /\ now = 0 /\ endTime = 0
    /\ sawPlaying = FALSE /\ durationSet = FALSE /\ playbackCompleted = FALSE
    /\ waited = 0
    /\ spc = "idle"
    /\ stopError = FALSE
    /\ lingering = FALSE
    /\ nextId = 2
    /\ deq = <<1, 2>>
    /\ deqStop = [i \in Ids |-> FALSE]
    /\ done = [i \in Ids |-> IF i = 1 THEN 1 ELSE 0]
    /\ synthCount = 0
    /\ storeCount = 0
    /\ playCount = 0
    /\ restoreCount = 0
    /\ outcome = "none"
    /\ sigInWait = FALSE
    /\ lastWait = [point |-> "get", early |-> TRUE, sig |-> FALSE]
    /\ cancelled = NoCancel
    /\ seenPlay = FALSE /\ idleAfterPlay = FALSE
    /\ pendingAtStop = 0
    /\ captured = EmptyState
    /\ restored = NoRestore
    /\ Connection = "none"
    /\ Data = <<>>
    /\ sent = <<>>
    /\ opened = NoPath
    /\ mpc = "idle"
    /\ filePath = NoPath
    /\ messageFileSize = 0
    /\ messageFile = "none"
    /\ hadFailure = FALSE
    /\ PlanIdle
OverwriteNext ==
    WSynth \/ WSave \/ OnMessage \/ OnMessageSize \/ OnMessageRead
OverwriteSpec == OverwriteInit /\ [][OverwriteNext]_vars

\* ------------------------------------------------------------ room plan
\* RoomPlanManager: the created devices are put into the room plan named by
\* Parameters['Mode4'] through the JSON API of the host, one request at a
\* time.  An idx is a string (a sequence of tokens, <<>> for ''), NoIdx
\* where the key is missing or null.
plan_name == "Google"
\* Devices[Unit].ID of the devices the plugin has created
CreatedLists == {<<>>, <<5>>, <<5, 6>>}
NoParam == NoneVal
Api(param, name, idx, activeidx) ==
    [param |-> param, name |-> name, idx |-> idx, activeidx |-> activeidx]

\* the entries of 'result' in the responses of the host
Plan(name, idx) == [Name |-> name, idx |-> idx, devidx |-> NoIdx]
Dev(devidx) == [Name |-> "", idx |-> NoIdx, devidx |-> devidx]
PlanLists ==
    {<<>>, <<Plan("Other", <<"1">>)>>, <<Plan("Google", <<"2">>)>>,
     <<Plan("Other", <<"1">>), Plan("Google", <<"2">>)>>}
DeviceLists ==
    {<<>>, <<Dev(<<"5">>)>>, <<Dev(<<"6">>)>>,
     <<Dev(<<"5">>), Dev(<<"6">>)>>, <<Dev(<<"7">>), Dev(NoIdx)>>,
     <<Dev(<<"5">>), Dev(<<>>)>>}
Json(status, result) == [json |-> TRUE, status |-> status, result |-> result]
\* what the host answers to a request: a body that is not JSON, or the
\* JSON object of that command with either status
ResponsesTo(request) ==
    {NoResponse}
    \cup {Json(status, result) :
            status \in {"OK", "ERR"},
            result \in CASE request.param = "getplans" -> PlanLists
                         [] request.param = "getplandevices" -> DeviceLists
                         [] OTHER -> {<<>>}}

\* the loop of lines 215-218: the idx of the first plan with the name, None
\* when there is none
RECURSIVE Found(_, _)
Found(result, name) ==
    IF result = <<>> THEN NoIdx
    ELSE IF Head(result).Name = name THEN Head(result).idx
    ELSE Found(Tail(result), name)

\* lines 234-238: the devidx of the entries where it is not None; an empty
\* string is added like any other
DevIdxSet(result) ==
    {result[i].devidx : i \in {j \in 1..Len(result) :
                                  result[j].devidx # NoIdx}}

\* _handle_response: the state, plan_idx and plan_device_set it leaves
NonOkToleratedAnywhere(st) == TRUE
NonOkToleratedIn(st) == st = "GET_PLAN_DEVICES"
Manager(st, idx, set) ==
    [state |-> st, plan_idx |-> idx, plan_device_set |-> set]
HandleResponse(st, idx, set, response) ==
    IF response.status # "OK" /\ ~NonOkToleratedIn(st)
    THEN Manager("ERROR", idx, set)
    ELSE IF st \in {"GET_PLANS", "GET_PLANS_AFTER_CREATE"}
    THEN IF Found(response.result, plan_name) \notin {NoIdx, <<>>}
         THEN Manager("GET_PLAN_DEVICES",
                      Found(response.result, plan_name), set)
         ELSE IF st = "GET_PLANS" THEN Manager("ADD_PLAN", idx, set)
         ELSE Manager("ERROR", idx, set)
    ELSE IF st = "ADD_PLAN"
    THEN Manager("GET_PLANS_AFTER_CREATE", idx, set)
    ELSE IF st = "GET_PLAN_DEVICES"
    THEN Manager("ADD_DEVICE_NEXT", idx, DevIdxSet(response.result))
    ELSE Manager(st, idx, set)

\* the while loop of _add_next_device: the entries of pending_add from the
\* first one that is not in plan_device_set
RECURSIVE SkipKnown(_, _)
SkipNone(pending, set) == pending
SkipKnown(pending, set) ==
    IF pending = <<>> THEN <<>>
    ELSE IF Head(pending) \in set THEN SkipKnown(Tail(pending), set)
    ELSE pending

\* _send_next and _add_next_device: the state, pending_add and connection
\* they leave and the request they send, if any
Sends(st, pending, c, sends) ==
    [state |-> st, pending_add |-> pending, conn |-> c, sends |-> sends]
SendNext(st, idx, set, pending, c) ==
    IF st \in {"IDLE", "DONE", "ERROR"} THEN Sends(st, pending, c, <<>>)
    ELSE IF st \in {"GET_PLANS", "GET_PLANS_AFTER_CREATE"}
    THEN Sends(st, pending, c,
               <<Api("getplans", "", NoParam, NoParam)>>)
    ELSE IF st = "ADD_PLAN"
    THEN Sends(st, pending, c,
               <<Api("addplan", plan_name, NoParam, NoParam)>>)
    ELSE IF st = "GET_PLAN_DEVICES"
    THEN Sends(st, pending, c,
               <<Api("getplandevices", "", IntVal(idx), NoParam)>>)
    ELSE IF SkipKnown(pending, set) = <<>>
    THEN Sends("DONE", <<>>, "none", <<>>)
    ELSE Sends(st, Tail(SkipKnown(pending, set)), c,
               <<Api("addplanactivedevice", "", IntVal(idx),
                     IntVal(Head(SkipKnown(pending, set))))>>)

\* the manager after _send_next ran in the given state
Proceed(st, idx, set) ==
    LET next == SendNext(st, idx, set, pending_add, conn)
    IN  /\ state' = next.state
        /\ plan_idx' = idx
        /\ plan_device_set' = set
        /\ pending_add' = next.pending_add
        /\ conn' = IF conn = "connecting" /\ next.conn # "none"
                   THEN "open" ELSE next.conn
        /\ requests' = requests \o next.sends
        /\ outstanding' = outstanding + Len(next.sends)

\* BasePlugin.onHeartbeat, lines 880-887, and RoomPlanManager.start
OnHeartbeat ==
    /\ ~triggered
    /\ \E port \in {NoneVal, 8080}, created \in CreatedLists :
          IF port = NoneVal THEN UNCHANGED planVars
          ELSE /\ triggered' = TRUE
               /\ IF created = <<>>
                  THEN UNCHANGED <<state, pending_add, conn>>
                  ELSE /\ pending_add' = [i \in 1..Len(created) |->
                                             Decimal(created[i])]
                       /\ state' = "GET_PLANS"
                       /\ conn' = "connecting"
               /\ UNCHANGED <<plan_idx, plan_device_set, outstanding,
                              requests, obj, allOK>>
    /\ UNCHANGED <<pipelineVars, serverVars>>

\* BasePlugin.onConnect for DomoticzPlanHTTP: RoomPlanManager.on_connect
PlanOnConnect ==
    /\ conn = "connecting"
    /\ \E status \in {0, 1} :
          IF status # 0
          THEN /\ state' = "ERROR"
               /\ conn' = "failed"
               /\ UNCHANGED <<plan_idx, plan_device_set, pending_add,
                              outstanding, requests>>
          ELSE Proceed(state, plan_idx, plan_device_set)
    /\ UNCHANGED <<pipelineVars, serverVars, triggered, obj, allOK>>

\* BasePlugin.onMessage for DomoticzPlanHTTP: RoomPlanManager.on_message
\* with the response to the request that is outstanding
PlanOnMessage ==
    /\ conn = "open"
    /\ outstanding > 0
    /\ \E response \in ResponsesTo(requests[Len(requests)]) :
          /\ obj' = response
          /\ allOK' = (allOK /\ response.json /\ response.status = "OK")
          /\ IF ~response.json
             THEN /\ state' = "ERROR"
                  /\ outstanding' = outstanding - 1
                  /\ UNCHANGED <<plan_idx, plan_device_set, pending_add,
                                 conn, requests>>
             ELSE LET m == HandleResponse(state, plan_idx, plan_device_set,
                                          response)
                      next == SendNext(m.state, m.plan_idx,
                                       m.plan_device_set, pending_add, conn)
                  IN  /\ state' = next.state
                      /\ plan_idx' = m.plan_idx
                      /\ plan_device_set' = m.plan_device_set
                      /\ pending_add' = next.pending_add
                      /\ conn' = next.conn
                      /\ requests' = requests \o next.sends
                      /\ outstanding' = outstanding - 1 + Len(next.sends)
    /\ UNCHANGED <<pipelineVars, serverVars, triggered>>

\* The plugin runs its heartbeats and the host answers on the plan
\* connection; no notification is under way.
PlanNext == OnHeartbeat \/ PlanOnConnect \/ PlanOnMessage
PlanSpec == Init /\ [][PlanNext]_vars
\* The host reports the outcome of Connect() and answers every request.
FairPlanSpec ==
    PlanSpec /\ WF_vars(PlanOnConnect) /\ WF_vars(PlanOnMessage)

\* ---------------------------------------------------------------- claims
Dequeued(i) == \E k \in DOMAIN deq : deq[k] = i
\* the worker holds item i and has not yet reached the end of its iteration
Handling(i) ==
    /\ Message.id = i
    /\ wpc \notin {"start", "loop", "get", "exiting", "exited"}
PastJoin == spc \in {"thread_join", "threads", "done"}

\* C1: once onStop has been issued it eventually returns, in every case
\* (worker idle, in a session, requests pending, worker already gone).
C1_OnStopReturns == (spc # "idle") ~> (spc = "done")

\* C2: messageQueue.join() in onStop returns only when every request that
\* was put and the sentinel have been marked processed, never earlier:
\* once onStop is past the join nothing is left unprocessed, and while it
\* is in the join with an item that is not marked, the join cannot return.
C2_DrainOnlyAfterAllProcessed ==
    /\ PastJoin => /\ messageQueue = <<>>
                   /\ \A i \in 0..nextId : done[i] = 1
    /\ (spc = "join" /\ \E i \in 0..nextId : done[i] = 0) => ~JoinReturns
\* shutdown was issued with request 1 waiting in the queue; the worker has
\* marked it and left, the sentinel is not marked and onStop is in the join
C2_Witness ==
    /\ spc = "join"
    /\ pendingAtStop = 1
    /\ deqStop[1]
    /\ done[1] = 1
    /\ done[0] = 0
    /\ messageQueue = <<Sentinel>>
    /\ wpc = "exited"

\* C3: every item the worker dequeued, the sentinel included, gets exactly
\* one task_done: never two, and one as soon as the worker has left the item.
C3_TaskDoneExactlyOnce ==
    \A i \in Ids : /\ done[i] <= 1
                   /\ (Dequeued(i) /\ ~Handling(i)) => done[i] = 1
                   /\ ~Dequeued(i) => done[i] = 0
C3_Witness ==
    /\ wpc \in {"loop", "get"}
    /\ Message.id = 1
    /\ outcome = "exception"
    /\ done[1] = 1

\* C4: the worker dequeues the requests in the order they were enqueued
\* (ids are given in enqueue order, the sentinel is put last), each once.
C4_FifoOrder ==
    \A k \in DOMAIN deq :
        \/ deq[k] = k
        \/ deq[k] = 0 /\ k = nextId + 1 /\ k = Len(deq)
C4_Witness == Len(deq) >= 2 /\ deq[1] = 1 /\ deq[2] = 2 /\ done[1] = 1

\* C5: when the worker starts synthesis (or any later session step) for a
\* request, every request enqueued before it has been handled to the end.
C5_OneSessionAtATime ==
    (Message.id >= 1 /\ synthCount + storeCount + playCount + restoreCount > 0)
        => \A i \in 1..(Message.id - 1) : done[i] = 1
C5_Witness ==
    /\ Message.id = 2
    /\ wpc = "store"
    /\ synthCount = 1
    /\ done[1] = 1
    /\ \E u \in UUIDs : State[u].has

\* C6: a session cancelled by the signal during the await-active wait, the
\* settle wait, a poll tick or the flush wait gets exactly one RestoreState
\* call, and the worker then leaves its loop with that request.
C6_CancelRestoresOnce ==
    (/\ cancelled.point \in {"await_active", "settle", "poll_body",
                              "flush_wait"}
     /\ wpc \in {"loop", "exiting", "exited"})
        => restoreCount = 1 /\ Message.id = cancelled.id

\* C7: a request dequeued after the signal was set causes no synthesis, no
\* snapshot and no play command, and nothing is dequeued after it.
C7_NoSessionAfterSignal ==
    /\ (Message.id \in Ids /\ deqStop[Message.id] /\ Message.id >= 1)
          => synthCount = 0 /\ storeCount = 0 /\ playCount = 0
    /\ \A k \in DOMAIN deq : deqStop[deq[k]] => k = Len(deq)
C7_Witness ==
    /\ Message.id >= 1
    /\ deqStop[Message.id]
    /\ wpc = "exited"

\* C8: at each of the six suspension points, a signal set while the worker
\* waits there ends the wait before its own timeout.
C8_WaitsObserveSignal == lastWait.sig => lastWait.early

\* C9: without shutdown, once a request has been dequeued and another one
\* is pending behind it, the worker eventually dequeues that next request,
\* however the first one ends.
C9_PipelineNeverStalls ==
    \A i \in 1..MaxRequests :
        (Len(deq) >= i /\ nextId > i) ~> (Len(deq) > i \/ stop_event)
C9_Witness ==
    /\ Message.id = 2
    /\ wpc = "dispatch"
    /\ outcome = "exception"
    /\ ~stop_event

\* C10: completed is reported only if playing or paused was read at some
\* tick and idle at that tick or a later one, and the poll loop is left at
\* the first such idle reading.
C10_CompletedOnlyAfterPlayThenIdle ==
    /\ playbackCompleted => seenPlay /\ idleAfterPlay
    /\ idleAfterPlay => playbackCompleted /\ wpc \notin {"poll_cond", "poll_body"}
C10_Witness == playbackCompleted /\ wpc = "flush" /\ seenPlay

InPollLoop == wpc \in {"poll_cond", "poll_body"}

\* C11: a session in which neither playing nor paused is ever read leaves
\* the poll loop, when not cancelled, at its first look at the clock that is
\* max(15, fileSize*8/64000 + 10) seconds or more after the loop was set up,
\* less than one wait of 0.5 s past that time (a tick is 1/8000 s, so
\* endTime * 8 is seconds * 64000), with the deadline still the initial one
\* and completed false, and the session is then logged as timed out.
C11_NeverStartedTimesOut ==
    [][/\ (wpc = "poll_cond" /\ wpc' = "flush" /\ ~seenPlay /\ ~stop_event)
            => /\ endTime * 8 = Max(15 * 64000, asset[uuid] * 8 + 10 * 64000)
               /\ now >= endTime
               /\ now - PollTicks < endTime
               /\ ~durationSet
               /\ ~playbackCompleted'
       /\ (wpc = "cleanup" /\ wpc' # "cleanup" /\ ~seenPlay)
            => ~playbackCompleted /\ outcome' = "timeout"]_vars
C11_Witness ==
    /\ wpc = "cleanup"
    /\ ~seenPlay
    /\ ~stop_event
    /\ asset[uuid] = 42000
    /\ lastWait.point = "flush_wait"

\* C12: the poll loop is always left: whatever the device reports, a worker
\* that is in the loop eventually is past it, and the loop never sees the
\* clock a whole wait of 0.5 s past the deadline in force.
C12_PollLoopTerminates ==
    /\ [](InPollLoop => now - PollTicks < endTime)
    /\ InPollLoop ~> ~InPollLoop
C12_Witness ==
    /\ wpc = "flush"
    /\ seenPlay
    /\ ~playbackCompleted
    /\ ~stop_event
    /\ lastWait.point = "poll_body"
    /\ ~lastWait.early

\* C13: after a completed session whose restore was not given up by its own
\* rules (target not ready in time, signal during the wait, a command that
\* raised), the set_volume and set_volume_muted commands of restore carry
\* exactly the values the snapshot read from the status, and after an empty
\* snapshot restore sends neither command.
C13_RestoreReappliesSnapshot ==
    (/\ wpc = "cleanup"
     /\ playbackCompleted
     /\ restored.result \notin {"notready", "cancelled", "failed"})
        => IF captured.has
           THEN /\ restored.Volume = captured.Volume
                /\ restored.muteSent
                /\ restored.Muted = captured.Muted
           ELSE restored.Volume = NoneVal /\ ~restored.muteSent

SessionSteps == synthCount + storeCount + playCount + restoreCount

\* C14: a request whose target is muted is skipped: no synthesis, no
\* snapshot, no play command and no restore happen for it, it is marked
\* processed once, and the worker goes on to take the next item.
C14_MutedTargetSkipped ==
    /\ outcome = "muted" => SessionSteps = 0
    /\ (outcome = "muted" /\ wpc \in {"loop", "get"} /\ Message.id >= 1)
          => done[Message.id] = 1
    /\ (outcome = "muted" /\ wpc \in {"exiting", "exited"}) => stop_event
C14_Witness ==
    /\ outcome = "muted"
    /\ Message.id = 1
    /\ wpc = "get"
    /\ done[1] = 1
    /\ nextId = 2
    /\ ~stop_event

\* C15: when synthesis fails (the engine raises, or the output file is
\* missing or empty) the worker takes no snapshot and sends no play command
\* for that request.
C15_FailedSynthesisTouchesNothing ==
    (/\ Message.id >= 1
     /\ Handling(Message.id)
     /\ synthCount > 0
     /\ (outcome = "synthfail" \/ asset[uuid] = 0))
        => storeCount = 0 /\ playCount = 0

\* C16: a request whose target is not ready is dropped: no synthesis, no
\* snapshot, no play command and no restore happen for it, it is marked
\* processed once, and the worker goes on to take the next item.
C16_UnavailableTargetDropped ==
    /\ outcome = "unavailable" => SessionSteps = 0
    /\ (outcome = "unavailable" /\ wpc \in {"loop", "get"} /\ Message.id >= 1)
          => done[Message.id] = 1
    /\ (outcome = "unavailable" /\ wpc \in {"exiting", "exited"}) => stop_event
C16_Witness ==
    /\ outcome = "unavailable"
    /\ Message.id = 1
    /\ wpc = "get"
    /\ done[1] = 1
    /\ nextId = 2
    /\ ~stop_event

\* C17: the worker removes an asset file only in the cleanup of a session
\* that reported completed; the cleanup of a session that did not leaves
\* the file, logs the time-out and returns to the worker loop.
C17_AssetDeletedOnlyWhenCompleted ==
    [][/\ (\E u \in UUIDs : asset[u] # NoFile /\ asset'[u] = NoFile)
            => wpc = "cleanup" /\ playbackCompleted
       /\ (wpc = "cleanup" /\ wpc' # "cleanup" /\ ~playbackCompleted)
            => /\ asset' = asset
               /\ outcome' = "timeout"
               /\ wpc' = "for"]_vars
C17_Witness ==
    /\ outcome = "timeout"
    /\ wpc = "get"
    /\ Message.id = 1
    /\ asset["u1"] = 42000
    /\ ~stop_event

\* C18: when the worker is done with a request for which it took a
\* snapshot, the asset file is still on disk only if the session was logged
\* as timed out.
C18_AssetLeftOnlyOnTimeout ==
    (/\ wpc = "task_done"
     /\ Message.id >= 1
     /\ storeCount > 0
     /\ asset[uuid] # NoFile)
        => outcome = "timeout"

\* a request the media server itself handled, and whether it carries a
\* Range header
Served ==
    /\ Connection = "messageServer"
    /\ mpc = "idle"
    /\ DOMAIN Data = {"Verb", "URL", "Headers"}
    /\ Data.Verb = "GET"
HasRange == "Range" \in DOMAIN Data.Headers
\* the spellings of Messages/u1.mp3 among the URLs sent
AssetUrls ==
    {<<"/", "u1.mp3">>, <<"/", "u1.mp3", "?", "t", "=", "1">>,
     <<"/", "/", "u1.mp3">>, <<"/", "..", "/", "Messages", "/", "u1.mp3">>}
IsPrefix(p, q) == Len(p) <= Len(q) /\ SubSeq(q, 1, Len(p)) = p

\* C19: whatever the request URL, '..' segments included, a file the media
\* server opens lies inside the Messages directory.
C19_ServedPathInsideMessages ==
    opened # NoPath => IsPrefix(messagesDir, opened) /\ opened # messagesDir

\* C20: a GET for an existing asset of size n with Range: bytes=A-B,
\* A <= B < n, is answered by a single 206 whose body is bytes A..B of the
\* file (B-A+1 of them), with Content-Range 'bytes A-B/n' and
\* Content-Length B-A+1.
C20_RangeReturnsExactSlice ==
    \A a \in 0..MaxPos, b \in 0..MaxPos :
        (/\ Served
         /\ Data.URL \in AssetUrls
         /\ HasRange
         /\ Data.Headers.Range = <<"bytes", "=">> \o Decimal(a)
                                    \o <<"-">> \o Decimal(b)
         /\ a <= b
         /\ b < asset["u1"])
            => /\ Len(sent) = 1
               /\ sent[1].Status = "206 Partial Content"
               /\ Len(sent[1].Data) = b - a + 1
               /\ \A k \in a..b :
                     sent[1].Data[k - a + 1] = AssetBytes(asset["u1"])[k + 1]
               /\ sent[1].Headers["Content-Range"] =
                     <<"bytes", " ">> \o Decimal(a) \o <<"-">> \o Decimal(b)
                         \o <<"/">> \o Decimal(asset["u1"])
               /\ sent[1].Headers["Content-Length"] = Decimal(b - a + 1)
C20_Witness ==
    /\ Served
    /\ Data.URL = <<"/", "u1.mp3", "?", "t", "=", "1">>
    /\ HasRange
    /\ Data.Headers.Range = <<"bytes", "=", "1", "-", "2">>
    /\ asset["u1"] = 4
    /\ Len(sent) = 1
    /\ sent[1].Data = <<17, 24>>

Answered(status) == Served /\ Len(sent) = 1 /\ sent[1].Status = status
ContentRangeOf(first, last, size) ==
    <<"bytes", " ">> \o Decimal(first) \o <<"-">> \o Decimal(last)
        \o <<"/">> \o Decimal(size)

\* C21: every 206 for an asset of n >= 1 bytes names in its Content-Range a
\* start and an end with 0 <= start <= end <= n-1, and its Content-Length
\* and its body have end-start+1 bytes, also when the request asked for a
\* start or an end at or beyond n.
C21_RangeClampedToFile ==
    (/\ Answered("206 Partial Content")
     /\ Data.URL \in AssetUrls
     /\ asset["u1"] >= 1)
        => \E first \in 0..(asset["u1"] - 1), last \in 0..(asset["u1"] - 1) :
              /\ first <= last
              /\ sent[1].Headers["Content-Range"] =
                    ContentRangeOf(first, last, asset["u1"])
              /\ sent[1].Headers["Content-Length"] = Decimal(last - first + 1)
              /\ Len(sent[1].Data) = last - first + 1

\* bytes first..last of the asset of n bytes, none when first > last
Slice(n, first, last) ==
    IF first > last THEN <<>> ELSE SubSeq(AssetBytes(n), first + 1, last + 1)
QuantumEnd(first, n) ==
    IF first + 16384 - 1 <= n - 1 THEN first + 16384 - 1 ELSE n - 1

\* C22: a GET for an asset of n bytes with Range: bytes=S- is answered by
\* one 206 whose body is the bytes from S up to
\* min(S + 16384 - 1, n - 1); with the start missing too (bytes=-) S is 0.
C22_OpenEndedRangeStopsAtQuantum ==
    /\ \A first \in OpenStarts :
          (/\ Served
           /\ Data.URL \in AssetUrls
           /\ Data.Headers.Range = <<"bytes", "=">> \o Decimal(first) \o <<"-">>)
              => /\ Answered("206 Partial Content")
                 /\ sent[1].Data =
                       Slice(asset["u1"], first, QuantumEnd(first, asset["u1"]))
    /\ (/\ Served
        /\ Data.URL \in AssetUrls
        /\ Data.Headers.Range = <<"bytes", "=", "-">>)
            => /\ Answered("206 Partial Content")
               /\ sent[1].Data =
                     Slice(asset["u1"], 0, QuantumEnd(0, asset["u1"]))

\* the last call on the media server's connection has returned
Handled == Connection = "messageServer" /\ mpc = "idle"
Complete == DOMAIN Data = {"Verb", "URL", "Headers"}
NotGet == "Verb" \in DOMAIN Data /\ Data.Verb # "GET"
StatusOnly(status) == <<[Status |-> status]>>
\* the request names an asset that is on disk
NamesAsset == Data.URL \in AssetUrls /\ asset["u1"] # NoFile
NamesNoFile ==
    \/ Data.URL \in AssetUrls /\ asset["u1"] = NoFile
    \/ Data.URL = <<"/", "u2.mp3">>

\* C23: a request without verb, URL or headers is answered 400, one whose
\* verb is not GET 405 (400 will do when it lacks a part as well), a GET
\* for a path with no file in Messages 404, each with the status alone;
\* and only a complete GET that names an asset on disk is answered 200 or
\* 206.
C23_StatusMapping ==
    Handled =>
        /\ (~Complete /\ ~NotGet) => sent = StatusOnly("400 Bad Request")
        /\ (NotGet /\ Complete)
              => sent = StatusOnly("405 Method Not Allowed")
        /\ (NotGet /\ ~Complete)
              => sent \in {StatusOnly("405 Method Not Allowed"),
                           StatusOnly("400 Bad Request")}
        /\ (Complete /\ ~NotGet /\ NamesNoFile)
              => sent = StatusOnly("404 File Not Found")
        /\ (Len(sent) = 1
            /\ sent[1].Status \in {"200 OK", "206 Partial Content"})
              => Complete /\ ~NotGet /\ NamesAsset

HasHeader(response, name, value) ==
    /\ "Headers" \in DOMAIN response
    /\ name \in DOMAIN response.Headers
    /\ response.Headers[name] = value

\* C24: every response the media server sends, the error responses
\* included, carries Content-Type: audio/mpeg.
C24_ContentTypeOnEveryResponse ==
    Handled => \A i \in 1..Len(sent) :
                  HasHeader(sent[i], "Content-Type", <<"audio/mpeg">>)

\* C25: a GET without Range for an asset on disk is answered by one 200
\* whose body is the whole file, with Content-Length the file size,
\* Accept-Ranges: bytes, Cache-Control: no-store, no-cache,
\* must-revalidate, Pragma: no-cache and Expires: 0.
C25_FullFileResponse ==
    (Served /\ NamesAsset /\ ~HasRange)
        => /\ Answered("200 OK")
           /\ sent[1].Data = AssetBytes(asset["u1"])
           /\ HasHeader(sent[1], "Content-Length", Decimal(asset["u1"]))
           /\ HasHeader(sent[1], "Accept-Ranges", <<"bytes">>)
           /\ HasHeader(sent[1], "Cache-Control",
                        <<"no-store, no-cache, must-revalidate">>)
           /\ HasHeader(sent[1], "Pragma", <<"no-cache">>)
           /\ HasHeader(sent[1], "Expires", <<"0">>)
C25_Witness ==
    /\ Answered("200 OK")
    /\ Data.URL = <<"/", "u1.mp3">>
    /\ asset["u1"] = 4
    /\ sent[1].Data = <<10, 17, 24, 31>>
    /\ sent[1].Headers["Content-Length"] = <<"4">>

\* the query strings a sender appends to an asset URL
Queries ==
    {<<"?", "t", "=", "1">>, <<"?", "t", "=", "7", "2">>, <<"?", "t", "=">>,
     <<"?", "t", "=", "1", "?", "x">>, <<"?", "t", "=", "1", "/", "..">>}
PathOf(url) == Before(url, "?")

\* C26: a URL p?t=<token> resolves to the file p resolves to and is
\* answered with the status, headers and body p is answered with.
C26_QueryStringIgnored ==
    (Handled /\ "URL" \in DOMAIN Data)
        => /\ [sent |-> sent, opened |-> opened]
                = Handle([Data EXCEPT !.URL = PathOf(@)], Disk)
           /\ \A query \in Queries :
                 /\ FilePath(PathOf(Data.URL) \o query, Disk)
                       = FilePath(PathOf(Data.URL), Disk)
                 /\ Handle([Data EXCEPT !.URL = PathOf(@) \o query], Disk)
                       = Handle([Data EXCEPT !.URL = PathOf(@)], Disk)
C26_Witness ==
    /\ Answered("206 Partial Content")
    /\ Data.URL = <<"/", "u1.mp3", "?", "t", "=", "1">>
    /\ opened = AssetPath("u1")
    /\ asset["u1"] = 4
    /\ sent[1].Data = <<17, 24>>

\* the files as the session left them before the worker removed the asset
SessionDisk ==
    [made |-> TRUE,
     size |-> [u \in UUIDs |-> IF u = "u1" THEN 42000 ELSE NoFile]]

\* C27: a failure while one request is handled (a malformed Range value,
\* the file removed between the existence test and the read, a path that
\* is a directory) does not escape onMessage and leaves no file open, and
\* a request that follows it is answered as the handler answers it with
\* the files as they are or as they were when it arrived.
C27_FailureContained ==
    /\ mpc # "dead"
    /\ (mpc = "idle" /\ opened # NoPath) => messageFile = "closed"
    /\ (Handled /\ hadFailure /\ sent # <<>>)
          => /\ [sent |-> sent, opened |-> opened]
                  \in {Handle(Data, Disk), Handle(Data, SessionDisk)}
             /\ asset["u1"] # NoFile
                  => [sent |-> sent, opened |-> opened] = Handle(Data, Disk)
C27_Witness ==
    /\ hadFailure
    /\ Answered("404 File Not Found")
    /\ Data.URL = <<"/", "u1.mp3">>
    /\ outcome = "completed"

\* C28: a restore that finds the target not ready after the bounded wait
\* sends no quit_app, no set_volume and no set_volume_muted command.
C28_NotReadyRestoreSendsNothing ==
    restored.result = "notready"
        => /\ ~restored.quitSent
           /\ restored.Volume = NoneVal
           /\ ~restored.muteSent
C28_Witness ==
    /\ wpc = "cleanup"
    /\ captured.has
    /\ State[uuid].has
    /\ lastWait = [point |-> "restore_wait", early |-> FALSE, sig |-> FALSE]
    /\ restored = [NoRestore EXCEPT !.result = "notready"]

\* onStop has set the signal and is about to put the sentinel, the queue is
\* empty with nothing unfinished, and the worker sits in the timed get
ShutdownOnIdleWorker ==
    /\ spc = "put"
    /\ wpc = "get"
    /\ messageQueue = <<>>
    /\ unfinished = 0

\* C29: when shutdown is issued with an empty queue and the worker idle in
\* its timed get, the sentinel is eventually dequeued and marked processed
\* and the drain wait of onStop returns, in every interleaving.
C29_IdleShutdownDrains ==
    ShutdownOnIdleWorker
        ~> (/\ \E k \in 1..Len(deq) : deq[k] = Sentinel.id
            /\ done[Sentinel.id] = 1
            /\ PastJoin)

\* C30: when the worker is about to dequeue the next item, every snapshot
\* taken for the request it held has been followed by a restore attempt
\* for that request, also when a step after the snapshot raised.
C30_SnapshotAlwaysRestored ==
    (wpc = "get" /\ ~stop_event /\ Message.id >= 1)
        => restoreCount >= storeCount

\* C31: the snapshot restore applies at the end of a session is the one
\* StoreState captured at the start of that session: after a snapshot with
\* a volume, restore does not find an empty one, and what it sends are the
\* captured values, whatever the discovery callback and onStop did
\* meanwhile.
C31_RestoreUsesSessionSnapshot ==
    (wpc = "cleanup" /\ captured.has)
        => /\ restored.result # "noop"
           /\ restored.Volume \in {NoneVal, captured.Volume}
           /\ restored.muteSent => restored.Muted = captured.Muted

PollTick == wpc = "poll_body" /\ wpc' = "poll_cond"

\* C32: in one session the deadline is recomputed at most once.  Until it
\* is, it is the initial one; a tick recomputes it only with sawPlaying and
\* a reported duration, to the time of that tick + duration + 5 s; no later
\* tick changes it.
C32_DeadlineAdjustedOnce ==
    /\ []((InPollLoop /\ ~durationSet)
            => endTime = InitialDeadline(asset[uuid]))
    /\ [][PollTick =>
            /\ durationSet
                 => /\ durationSet'
                    /\ endTime' = endTime
                    /\ now' = now + PollTicks
            /\ (~durationSet /\ durationSet')
                 => /\ sawPlaying'
                    /\ \E duration \in Durations \ {NoneVal} :
                          endTime' - now' = duration * TicksPerSecond
                                            + DurationSlackTicks
            /\ (~durationSet /\ ~durationSet')
                 => /\ endTime' = endTime
                    /\ now' = now + PollTicks]_vars
C32_Witness ==
    /\ wpc = "poll_cond"
    /\ durationSet
    /\ sawPlaying
    /\ now = 2 * PollTicks
    /\ endTime = MaxDuration * TicksPerSecond + DurationSlackTicks

NothingSent(r) == ~r.quitSent /\ r.Volume = NoneVal /\ ~r.muteSent

\* C33: restore waits for the ready flag in at most 10 ticks of one second;
\* a tick during which the signal was set ends the restore at once with no
\* command sent; a restore that finds the target ready sends its commands,
\* and does so without a wait when the target is ready from the start.
C33_RestoreWaitBounded ==
    /\ [](waited <= RestoreMaxWaits)
    /\ [](restored.result = "cancelled" => NothingSent(restored))
    /\ [][/\ (wpc = "restore_loop" /\ wpc' = "restore_wait")
               => waited < RestoreMaxWaits
          /\ (wpc = "restore_wait" /\ wpc' # "restore_wait" /\ stop_event)
               => /\ wpc' = "cleanup"
                  /\ restored'.result = "cancelled"
          /\ (wpc = "restore_wait" /\ wpc' # "restore_wait" /\ ~stop_event)
               => wpc' = "restore_loop" /\ waited' = waited + 1
          /\ (wpc = "restore_apply" /\ wpc' = "cleanup"
               /\ restored'.result # "notready")
               => restored'.quitSent]_vars

\* C34: every request that arrives on a connection of the message server
\* is answered with exactly one response, whatever its Range value and
\* whatever its URL resolves to.
C34_ExactlyOneResponse == Handled => Len(sent) = 1

\* C35: in every 200 and 206 response Content-Length is the number of body
\* bytes sent, also when the worker writes the asset anew between the size
\* lookup and the read.
C35_ContentLengthIsBodyLength ==
    (Answered("200 OK") \/ Answered("206 Partial Content"))
        => HasHeader(sent[1], "Content-Length", Decimal(Len(sent[1].Data)))

\* C36: for one dequeued request the worker runs at most one session: at
\* most one synthesis, one snapshot and one play command, also when
\* several registered targets carry the requested name.
C36_OneSessionPerRequest ==
    Message.id >= 1 => /\ synthCount <= 1
                       /\ storeCount <= 1
                       /\ playCount <= 1

\* C37: no step of onMessage creates, changes or removes a file of the
\* Messages directory, whatever the request and its outcome and whatever
\* the worker does to the file meanwhile; where a file there changes, it
\* is a step of the worker (tts.save, or the cleanup) and of no request.
C37_ServerOnlyReads ==
    [][/\ callVars' # callVars => asset' = asset
       /\ asset' # asset => /\ wpc \in {"synth", "save", "cleanup"}
                            /\ callVars' = callVars]_vars
C37_Witness ==
    /\ Answered("200 OK")
    /\ hadFailure
    /\ opened = AssetPath("u1")
    /\ HasHeader(sent[1], "Content-Length", Decimal(42000))
    /\ Len(sent[1].Data) = 21000
    /\ asset["u1"] = 42000
    /\ wpc = "store"

\* a step of on_message, and the states in which the manager is at rest
MessageStep == conn = "open" /\ planVars' # planVars
AtRest == state \in {"IDLE", "DONE", "ERROR"}
\* at most one request outstanding; nothing sent at rest; a failed
\* connect, a body that is not JSON and a non-OK response outside
\* GET_PLAN_DEVICES lead to ERROR
PlanSafety ==
    /\ [](outstanding <= 1)
    /\ [](AtRest => outstanding = 0)
    /\ [][/\ AtRest => requests' = requests
          /\ requests' # requests
               => /\ state' \notin {"IDLE", "DONE", "ERROR"}
                  /\ Len(requests') = Len(requests) + 1
          /\ (conn = "connecting" /\ conn' = "failed") => state' = "ERROR"
          /\ (MessageStep /\ ~obj'.json) => state' = "ERROR"
          /\ (MessageStep /\ obj'.json /\ obj'.status # "OK"
               /\ state # "GET_PLAN_DEVICES") => state' = "ERROR"]_vars
Synchronised == state = "DONE" /\ pending_add = <<>>
\* the plan was created, and the lookup that followed was answered OK
\* with a list that does not hold it
CreatedPlanNotListed ==
    /\ state = "ERROR"
    /\ obj.json /\ obj.status = "OK"
    /\ Found(obj.result, plan_name) = NoIdx
    /\ Len(requests) = 3
    /\ requests[2].param = "addplan"

\* C38: the room-plan state machine, once started and connected, has at
\* most one API request outstanding, sends nothing in IDLE, DONE and ERROR,
\* goes to ERROR on a failed connect, on invalid JSON and on a non-OK
\* response outside GET_PLAN_DEVICES, and, when every response has status
\* OK, reaches DONE with the pending-device list empty.
C38_PlanSyncReachesDone ==
    /\ PlanSafety
    /\ (conn = "open") ~> (Synchronised \/ ~allOK)

\* C38, amended: as above, but with every response OK the machine reaches
\* DONE or, when the plan it created is not in the list fetched after the
\* creation, ERROR.
C38_PlanSyncReachesDoneOrReportsMissingPlan ==
    /\ PlanSafety
    /\ (conn = "open") ~> (Synchronised \/ ~allOK \/ CreatedPlanNotListed)
C38_Witness ==
    /\ Synchronised
    /\ allOK
    /\ conn = "none"
    /\ Len(requests) = 6
    /\ requests[2].param = "addplan"
    /\ requests[6].activeidx = 6

Sent(param) == {i \in 1..Len(requests) : requests[i].param = param}
Sending(param) ==
    /\ Len(requests') = Len(requests) + 1
    /\ requests'[Len(requests')].param = param
Sending_activeidx == Decimal(requests'[Len(requests')].activeidx)

\* C39: in one synchronisation addplan is sent at most once, and only on a
\* response to the first getplans that does not list the named plan; an
\* addplanactivedevice is sent only for an entry taken from pending_add
\* that the fetched plan-device list does not contain, and no device is
\* added twice.
C39_AddsOnlyWhatIsMissing ==
    /\ [](Cardinality(Sent("addplan")) <= 1)
    /\ [](\A i, j \in Sent("addplanactivedevice") :
            requests[i].activeidx = requests[j].activeidx => i = j)
    /\ [][/\ Sending("addplan")
               => /\ state = "GET_PLANS"
                  /\ requests[Len(requests)].param = "getplans"
                  /\ obj'.json
                  /\ Found(obj'.result, plan_name) = NoIdx
          /\ (MessageStep /\ state = "GET_PLAN_DEVICES" /\ obj'.json)
               => plan_device_set' = DevIdxSet(obj'.result)
          /\ Sending("addplanactivedevice")
               => /\ Sending_activeidx \notin plan_device_set'
                  /\ \E k \in 1..Len(pending_add) :
                        /\ pending_add[k] = Sending_activeidx
                        /\ pending_add' = SubSeq(pending_add, k + 1,
                                                 Len(pending_add))]_vars
C39_Witness ==
    /\ state = "ADD_DEVICE_NEXT"
    /\ plan_device_set = {<<"5">>}
    /\ Len(requests) = 3
    /\ requests[3].param = "addplanactivedevice"
    /\ requests[3].activeidx = 6
    /\ pending_add = <<>>

====
